---- MODULE Spec2Model ----
(***************************************************************************)
(* A model of the cleaning and forecasting core of the WSL attendance      *)
(* repository: fit_wsl_linear_model (src/src/modelling.py), the season    *)
(* and nationality cleaners (src/src/wsl_utils.py) and the helpers they    *)
(* call (src/src/data_utils.py).                                           *)
(*                                                                         *)
(* A table is a sequence of rows; a row is a function from column name to  *)
(* cell value, as a pandas row / python dict is.  Integer cells use NaN    *)
(* (-1) for a missing value; Predicted_Attendance is an exact rational     *)
(* [n, d] with d = 0 for a missing value.                                  *)
(***************************************************************************)
EXTENDS Integers, Sequences, FiniteSets, TLC

VARIABLES
    model_df,        \* the caller's input table
    feature_cols,    \* the caller's feature list
    split_year,      \* the caller's split year
    forecast_years,  \* the caller's number of seasons to forecast
    pc,              \* position inside fit_wsl_linear_model
    features,        \* the resolved feature list (local feature_cols)
    train_df,
    test_df,
    model,           \* the fitted regression (intercept and coefficient)
    ci,              \* position of the club loop (line 70)
    future_rows,     \* the list of dicts built by the club loop
    future_df,       \* the future table, or NoTable
    nat_in,          \* the raw nationality table given to the cleaner
    nat_years,       \* <<start_year, end_year>> given to the cleaner
    nat_out,         \* the table the cleaner returned
    nat_pc,          \* position of process_nationality_data
    grp_row,         \* the row given to nationality_group
    grp_out,         \* the label nationality_group returned
    grp_pc,          \* position of nationality_group
    file,            \* what is stored at the path given to load_csv_data
    load_pc,         \* position of load_csv_data
    wsl_in,          \* the raw season table given to process_wsl_data
    wsl_years,       \* <<start_year, end_year>> given to process_wsl_data
    wsl_out,         \* the table process_wsl_data returned
    wsl_pc,          \* position of process_wsl_data
    uid_before,      \* that table as it was when the call began
    uid_in,          \* the table given to create_unique_id
    uid_cols,        \* the column list given to create_unique_id
    uid_new,         \* the new_column given to create_unique_id
    uid_out,         \* the table create_unique_id returned
    uid_pc,          \* position of create_unique_id
    ren_in,          \* the table given to convert_column_names
    ren_map,         \* the mapping the caller renames with
    ren_out,         \* the table the latest convert_column_names call returned
    ren_pc,          \* position of the two renaming calls
    spl_before,      \* the table given to split_column, as it was
    spl_in,          \* the table given to split_column
    spl_new,         \* the new_columns given to split_column
    spl_out,         \* the table split_column returned
    spl_pc,          \* position of split_column
    rem_before,      \* the table given to remove_string_parts, as it was
    rem_in,          \* the table given to remove_string_parts
    rem_sub,         \* the substring given to remove_string_parts
    rem_out,         \* the table remove_string_parts returned
    rem_pc,          \* position of remove_string_parts
    builder,         \* the chart builder or build_dashboard being called
    pages_dict,      \* the page names given to build_dashboard
    save_fig,        \* the save_fig argument
    fig_name,        \* the fig_name argument, or None
    disk_before,     \* the reports directory tree when the call began
    disk,            \* the reports directory tree
    fig_out,         \* the figure or template returned, or None
    plot_pc          \* position of the builder

fitVars == <<model_df, feature_cols, split_year, forecast_years, pc, features,
             train_df, test_df, model, ci, future_rows, future_df>>
natVars == <<nat_in, nat_years, nat_out, nat_pc, grp_row, grp_out, grp_pc>>
wslVars == <<file, load_pc, wsl_in, wsl_years, wsl_out, wsl_pc>>
uidVars == <<uid_before, uid_in, uid_cols, uid_new, uid_out, uid_pc>>
renVars == <<ren_in, ren_map, ren_out, ren_pc>>
splVars == <<spl_before, spl_in, spl_new, spl_out, spl_pc>>
remVars == <<rem_before, rem_in, rem_sub, rem_out, rem_pc>>
plotVars == <<builder, pages_dict, save_fig, fig_name, disk_before, disk,
              fig_out, plot_pc>>
helperVars == <<renVars, splVars, remVars, plotVars>>
vars == <<fitVars, natVars, wslVars, uidVars, helperVars>>

-----------------------------------------------------------------------------
(* Bounds of the model.                                                    *)

MaxRows == 3
MaxForecast == 2

-----------------------------------------------------------------------------
(* Exact rational arithmetic for the float columns.                        *)

NaN == -1
NaNQ == [n |-> 0, d |-> 0]

Abs(x) == IF x < 0 THEN -x ELSE x

RECURSIVE Gcd(_, _)
Gcd(a, b) == IF b = 0 THEN a ELSE Gcd(b, a % b)

Q(n, d) ==
    LET g == Gcd(Abs(n), Abs(d))
        s == IF d < 0 THEN -1 ELSE 1
    IN  [n |-> s * (n \div g), d |-> s * (d \div g)]

QInt(i) == [n |-> i, d |-> 1]

IsNaNQ(q) == q.d = 0

QMul(a, b) ==
    IF IsNaNQ(a) \/ IsNaNQ(b) THEN NaNQ
    ELSE LET x == Q(a.n, b.d)
             y == Q(b.n, a.d)
         IN  [n |-> x.n * y.n, d |-> x.d * y.d]

QAdd(a, b) ==
    IF IsNaNQ(a) \/ IsNaNQ(b) THEN NaNQ
    ELSE LET g == Gcd(a.d, b.d)
         IN  Q(a.n * (b.d \div g) + b.n * (a.d \div g), (a.d \div g) * b.d)

QLess(a, b) == a.n * b.d < b.n * a.d

RECURSIVE QPow(_, _)
QPow(a, k) == IF k = 0 THEN QInt(1) ELSE QMul(a, QPow(a, k - 1))

-----------------------------------------------------------------------------
(* Sequence helpers.                                                       *)

Range(s) == {s[i] : i \in DOMAIN s}

RECURSIVE SeqFilter(_, _)
\* the rows of s whose mask entry is TRUE, in the order of s (boolean indexing)
SeqFilter(s, mask) ==
    IF s = <<>> THEN <<>>
    ELSE LET rest == SeqFilter(Tail(s), Tail(mask))
         IN  IF Head(mask) THEN <<Head(s)>> \o rest ELSE rest

\* python's  row[k] = v
Put(row, k, v) == [x \in DOMAIN row \cup {k} |-> IF x = k THEN v ELSE row[x]]

RECURSIVE PutAll(_, _, _)
\* python's  for k in keys: row[k] = val[k]
PutAll(row, keys, val) ==
    IF keys = <<>> THEN row
    ELSE PutAll(Put(row, Head(keys), val[Head(keys)]), Tail(keys), val)

-----------------------------------------------------------------------------
(* The input domain: model tables, feature lists, split years.             *)

NoTable == [present |-> FALSE, rows |-> <<>>]

ClubCols == <<"Club_A", "Club_B">>
ClubName == [Club_A |-> "A", Club_B |-> "B"]
ClubColOf == [A |-> "Club_A", B |-> "Club_B"]

Seasons == {2021, 2022, 2023}
SplitYears == {2022, 2023}

\* Attendance, Capacity and Points of the five kinds of row drawn as input
AttendanceOf == <<3000, 3300, 3600, 20, 1>>
CapacityOf == <<NaN, 4500, 5000, 4500, 5000>>
PointsOf == <<12, 20, 31, 20, 12>>
\* Matches is a count the input stores as floats: 22.5, missing, 68/3, ...
MatchesOf ==
    <<[n |-> 45, d |-> 2], [n |-> 0, d |-> 0], [n |-> 68, d |-> 3],
      [n |-> 22, d |-> 1], [n |-> 45, d |-> 2]>>

\* the kind of the row at each position of an input table
KindPatterns ==
    { <<1, 2, 3, 1, 2, 3>>, <<3, 2, 1, 3, 2, 1>>, <<2, 3, 2, 3, 2, 3>> }

FeatureLists ==
    { <<"Points">>,
      <<"Season", "Points", "Capacity", "Season">>,
      <<"Capacity", "Club_A", "Club_B">> }

RowChoices == [s : Seasons \cup {NaN}, c : Range(ClubCols)]

MkRow(i, ch, kind) ==
    [k \in {"index", "Season", "Club_A", "Club_B", "Attendance", "Capacity",
             "Points", "Matches"} |->
        CASE k = "index" -> i
          [] k = "Season" -> ch.s
          [] k = "Attendance" -> AttendanceOf[kind]
          [] k = "Capacity" -> CapacityOf[kind]
          [] k = "Points" -> PointsOf[kind]
          [] k = "Matches" -> MatchesOf[kind]
          [] OTHER -> IF k = ch.c THEN 1 ELSE 0]

\* one row per club-season (the Model Input Table invariant of the pipeline)
OnePerClubSeason(t) ==
    \A i, j \in DOMAIN t :
        (i # j /\ t[i].s # NaN /\ t[i].s = t[j].s) => t[i].c # t[j].c

Tables ==
    { [i \in DOMAIN t |-> MkRow(i - 1, t[i], p[i])] :
        t \in { u \in UNION { [1..n -> RowChoices] : n \in 0..MaxRows } :
                    OnePerClubSeason(u) },
        p \in KindPatterns }

\* tables of a club whose attendance has collapsed: 20, 1, 20, 1, ...
DeclinePattern == <<4, 5, 4, 5, 4, 5>>

DeclineTables ==
    { [i \in DOMAIN t |-> MkRow(i - 1, t[i], DeclinePattern[i])] :
        t \in { u \in UNION { [1..n -> RowChoices] : n \in 0..MaxRows } :
                    OnePerClubSeason(u) } }

Columns ==
    <<"Season", "Club_A", "Club_B", "Attendance", "Capacity", "Points", "Matches">>

target_col == "Attendance"

-----------------------------------------------------------------------------
(* fit_wsl_linear_model: feature guard and train/test split.               *)

RECURSIVE ResolveFeatures_first(_)
ResolveFeatures_first(fc) ==
    IF fc = <<>> THEN <<>>
    ELSE IF Head(fc) = "Season" THEN Tail(fc)
         ELSE <<Head(fc)>> \o ResolveFeatures_first(Tail(fc))

\* line 38: feature_cols = [c for c in feature_cols if c != 'Season']
ResolveFeatures(fc) == SelectSeq(fc, LAMBDA c : c # "Season")

\* a comparison with a missing Season is False
SeasonLt(s, y) == s # NaN /\ s < y
SeasonGe(s, y) == s # NaN /\ s >= y

\* line 41
TrainRows(df, y) == SeqFilter(df, [i \in DOMAIN df |-> SeasonLt(df[i]["Season"], y)])
TestRows_gt(df, y) ==
    SeqFilter(df, [i \in DOMAIN df |-> df[i]["Season"] # NaN /\ df[i]["Season"] > y])

\* line 42
TestRows(df, y) == SeqFilter(df, [i \in DOMAIN df |-> SeasonGe(df[i]["Season"], y)])

Split ==
    /\ pc = "start"
    /\ features' = ResolveFeatures(feature_cols)
    /\ train_df' = TrainRows(model_df, split_year)
    /\ test_df' = TestRows(model_df, split_year)
    /\ pc' = "split"
    /\ UNCHANGED <<model_df, feature_cols, split_year, forecast_years, model, ci,
                   future_rows, future_df, natVars, wslVars, uidVars, helperVars>>

-----------------------------------------------------------------------------
(* Fitting and predicting (sklearn LinearRegression).                      *)

HasNaN(df, cols) ==
    \E i \in DOMAIN df : \E j \in DOMAIN cols : df[i][cols[j]] = NaN

MissingColumn(cols) == \E j \in DOMAIN cols : cols[j] \notin Range(Columns)

\* sklearn rejects an empty sample, an empty feature set and missing values
FitRaises ==
    \/ MissingColumn(features)
    \/ train_df = <<>>
    \/ features = <<>>
    \/ HasNaN(train_df, features)
    \/ HasNaN(train_df, <<target_col>>)
    \/ test_df = <<>>
    \/ HasNaN(test_df, features)

\* the regressions the fit may return: an intercept and one weight per feature
Models ==
    { [intercept |-> Q(1, 8), coef |-> Q(2, 3)],
      [intercept |-> Q(-7, 2), coef |-> Q(5, 7)] }

RECURSIVE LinearSum(_, _, _)
LinearSum(m, row, cols) ==
    IF cols = <<>> THEN m.intercept
    ELSE QAdd(QMul(m.coef, QInt(row[Head(cols)])), LinearSum(m, row, Tail(cols)))

\* model.predict(X) written into the Predicted_Attendance column
WithPrediction(df, m, cols) ==
    [i \in DOMAIN df |-> Put(df[i], "Predicted_Attendance", LinearSum(m, df[i], cols))]

FitRaise ==
    /\ pc = "split"
    /\ FitRaises
    /\ pc' = "raised"
    /\ UNCHANGED <<model_df, feature_cols, split_year, forecast_years, features,
                   train_df, test_df, model, ci, future_rows, future_df, natVars, wslVars, uidVars, helperVars>>

Fit_inplace ==
    /\ pc = "split"
    /\ ~FitRaises
    /\ \E m \in Models :
        /\ model' = m
        /\ model_df' = WithPrediction(model_df, m, features)
        /\ train_df' = WithPrediction(train_df, m, features)
        /\ test_df' = WithPrediction(test_df, m, features)
    /\ pc' = "fitted"
    /\ UNCHANGED <<feature_cols, split_year, forecast_years, features,
                   ci, future_rows, future_df, natVars, wslVars, uidVars, helperVars>>

Fit ==
    /\ pc = "split"
    /\ ~FitRaises
    /\ \E m \in Models :
        /\ model' = m
        /\ train_df' = WithPrediction(train_df, m, features)
        /\ test_df' = WithPrediction(test_df, m, features)
    /\ pc' = "fitted"
    /\ UNCHANGED <<model_df, feature_cols, split_year, forecast_years, features,
                   ci, future_rows, future_df, natVars, wslVars, uidVars, helperVars>>

-----------------------------------------------------------------------------
(* Future forecasting, lines 58-145.                                        *)

Max(S) == CHOOSE x \in S : \A y \in S : y <= x

\* line 62: model_df['Season'].max()
last_year == Max({model_df[i]["Season"] : i \in DOMAIN model_df})

\* a Season column holding a missing value is a float column, and range()
\* of a float raises TypeError (line 63)
SeasonIsFloat == \E i \in DOMAIN model_df : model_df[i]["Season"] = NaN

future_years_from_last == [k \in 1..forecast_years |-> last_year + k - 1]

\* line 63
future_years_list == [k \in 1..forecast_years |-> last_year + k]

\* line 65: [c for c in model_df.columns if c.startswith('Club_')]
club_cols == SelectSeq(Columns, LAMBDA c : c \in DOMAIN ClubName)
\* line 66: c.replace('Club_', '')
clubs == [i \in DOMAIN club_cols |-> ClubName[club_cols[i]]]

RECURSIVE InsertBySeason(_, _)
InsertBySeason(sorted, r) ==
    IF sorted = <<>> THEN <<r>>
    ELSE IF SeasonLt(r["Season"], Head(sorted)["Season"])
              \/ (r["Season"] # NaN /\ Head(sorted)["Season"] = NaN)
         THEN <<r>> \o sorted
         ELSE <<Head(sorted)>> \o InsertBySeason(Tail(sorted), r)

RECURSIVE SortBySeason(_)
\* df.sort_values('Season'): ascending, missing values last
SortBySeason(df) ==
    IF df = <<>> THEN <<>>
    ELSE InsertBySeason(SortBySeason(SubSeq(df, 1, Len(df) - 1)), df[Len(df)])

ClubHistory_unsorted(df, club) ==
    SeqFilter(df, [i \in DOMAIN df |-> df[i][ClubColOf[club]] = 1])

\* line 73: model_df[model_df[f'Club_{club}'] == 1].sort_values('Season')
ClubHistory(df, club) ==
    SortBySeason(SeqFilter(df, [i \in DOMAIN df |-> df[i][ClubColOf[club]] = 1]))

PctChange_bycurrent(t) ==
    [i \in DOMAIN t |-> IF i = 1 THEN NaNQ ELSE Q(t[i] - t[i - 1], t[i])]

\* Series.pct_change(): the first entry is missing, then t[i] / t[i-1] - 1
PctChange(t) ==
    [i \in DOMAIN t |-> IF i = 1 THEN NaNQ ELSE Q(t[i] - t[i - 1], t[i - 1])]

RECURSIVE QInsert(_, _)
QInsert(sorted, q) ==
    IF sorted = <<>> THEN <<q>>
    ELSE IF QLess(q, Head(sorted)) THEN <<q>> \o sorted
         ELSE <<Head(sorted)>> \o QInsert(Tail(sorted), q)

RECURSIVE QSort(_)
QSort(s) == IF s = <<>> THEN <<>> ELSE QInsert(QSort(Tail(s)), Head(s))

\* Series.median(): missing values are skipped; an even count averages the
\* two middle values
Median(s) ==
    LET v == QSort(SelectSeq(s, LAMBDA q : ~IsNaNQ(q)))
        n == Len(v)
    IN  IF n = 0 THEN NaNQ
        ELSE IF n % 2 = 1 THEN v[(n + 1) \div 2]
        ELSE QMul(QAdd(v[n \div 2], v[n \div 2 + 1]), Q(1, 2))

DummyValues(club) == [c \in Range(club_cols) |-> IF c = ClubColOf[club] THEN 1 ELSE 0]

SparseRow_guess(cdf, club, year, feats) ==
    LET r0 == [Season |-> year, Club |-> club]
        r1 == PutAll(r0, club_cols, DummyValues(club))
        r2 == Put(r1, "Capacity", cdf[Len(cdf)]["Capacity"])
        r3 == Put(r2, "Predicted_Attendance", QInt(cdf[Len(cdf)][target_col]))
        r4 == Put(r3, target_col, cdf[Len(cdf)][target_col])
    IN  PutAll(r4, feats, [c \in Range(feats) |-> NaN])

\* lines 79-97: the dict built for a club with fewer than 2 rows
SparseRow(cdf, club, year, feats) ==
    LET r0 == [Season |-> year, Club |-> club]
        r1 == PutAll(r0, club_cols, DummyValues(club))
        r2 == Put(r1, "Capacity",
                  IF "Capacity" \in Range(Columns)
                  THEN cdf[Len(cdf)]["Capacity"] ELSE NaN)
        r3 == Put(r2, "Predicted_Attendance", NaNQ)
        r4 == Put(r3, target_col, NaN)
    IN  PutAll(r4, feats, [c \in Range(feats) |-> NaN])

\* line 87: cdf['Capacity'].iloc[-1] on an empty frame raises IndexError
SparseRaises(cdf) == "Capacity" \in Range(Columns) /\ Len(cdf) = 0

\* lines 121-141: the dict built for a club with a history
GrowthRow(last_row, club, year, att, feats) ==
    LET r0 == [Season |-> year]
        r1 == PutAll(r0, feats, last_row)
        r2 == PutAll(r1, club_cols, DummyValues(club))
        r3 == Put(r2, "Capacity", last_row["Capacity"])
        r4 == Put(r3, "Club", club)
        r5 == Put(r4, "Predicted_Attendance", att)
    IN  Put(r5, target_col, NaN)

GrowthRows_flat(last_row, club, years, last_att, growth, feats) ==
    [k \in DOMAIN years |->
        GrowthRow(last_row, club, years[k], QMul(last_att, QAdd(QInt(1), growth)), feats)]

RECURSIVE GrowthRows(_, _, _, _, _, _)
\* lines 116-143: last_att is compounded once per future year, in order
GrowthRows(last_row, club, years, last_att, growth, feats) ==
    IF years = <<>> THEN <<>>
    ELSE LET att == QMul(last_att, QAdd(QInt(1), growth))
         IN  <<GrowthRow(last_row, club, Head(years), att, feats)>>
                 \o GrowthRows(last_row, club, Tail(years), att, growth, feats)

\* lines 105-111
median_growth(cdf) == Median(PctChange([i \in DOMAIN cdf |-> cdf[i][target_col]]))

\* the rows one iteration of the club loop appends
ClubFutureRows(df, club, years, feats) ==
    LET cdf == ClubHistory(df, club)
    IN  IF Len(cdf) < 2
        THEN [k \in DOMAIN years |-> SparseRow(cdf, club, years[k], feats)]
        ELSE GrowthRows(cdf[Len(cdf)], club, years,
                        QInt(cdf[Len(cdf)][target_col]), median_growth(cdf), feats)

NoForecast ==
    /\ pc = "fitted"
    /\ forecast_years = 0
    /\ pc' = "metrics"
    /\ UNCHANGED <<model_df, feature_cols, split_year, forecast_years, features,
                   train_df, test_df, model, ci, future_rows, future_df, natVars, wslVars, uidVars, helperVars>>

ForecastRaise ==
    /\ pc = "fitted"
    /\ forecast_years > 0
    /\ SeasonIsFloat
    /\ pc' = "raised"
    /\ UNCHANGED <<model_df, feature_cols, split_year, forecast_years, features,
                   train_df, test_df, model, ci, future_rows, future_df, natVars, wslVars, uidVars, helperVars>>

ForecastBegin ==
    /\ pc = "fitted"
    /\ forecast_years > 0
    /\ ~SeasonIsFloat
    /\ ci' = 1
    /\ future_rows' = <<>>
    /\ pc' = "clubs"
    /\ UNCHANGED <<model_df, feature_cols, split_year, forecast_years, features,
                   train_df, test_df, model, future_df, natVars, wslVars, uidVars, helperVars>>

ClubRaise ==
    /\ pc = "clubs"
    /\ ci <= Len(clubs)
    /\ SparseRaises(ClubHistory(model_df, clubs[ci]))
    /\ pc' = "raised"
    /\ UNCHANGED <<model_df, feature_cols, split_year, forecast_years, features,
                   train_df, test_df, model, ci, future_rows, future_df, natVars, wslVars, uidVars, helperVars>>

ClubStep ==
    /\ pc = "clubs"
    /\ ci <= Len(clubs)
    /\ ~SparseRaises(ClubHistory(model_df, clubs[ci]))
    /\ future_rows' = future_rows
            \o ClubFutureRows(model_df, clubs[ci], future_years_list, features)
    /\ ci' = ci + 1
    /\ UNCHANGED <<model_df, feature_cols, split_year, forecast_years, pc, features,
                   train_df, test_df, model, future_df, natVars, wslVars, uidVars, helperVars>>

ForecastEnd ==
    /\ pc = "clubs"
    /\ ci > Len(clubs)
    /\ future_df' = [present |-> TRUE, rows |-> future_rows]
    /\ pc' = "metrics"
    /\ UNCHANGED <<model_df, feature_cols, split_year, forecast_years, features,
                   train_df, test_df, model, ci, future_rows, natVars, wslVars, uidVars, helperVars>>

-----------------------------------------------------------------------------
(* Datatype enforcement and return, lines 170-207.                         *)

int_cols ==
    <<"Matches", "Wins", "Draws", "Losses", "Goals_For", "Goals_Against",
      "Goal_Difference", "Points", "Top_Scorer_Goals", "Eng_Num_Players",
      "FIFA_Ranking", "Capacity", "years_since_euro">>

\* q rounded to the nearest multiple of 1/100, ties to the even multiple
Round2(q) ==
    IF IsNaNQ(q) THEN q
    ELSE LET whole == q.n \div q.d
             r == q.n % q.d
             fl == whole * 100 + (r * 100) \div q.d
             rem == (r * 100) % q.d
             up == 2 * rem > q.d \/ (2 * rem = q.d /\ fl % 2 = 1)
         IN  Q(IF up THEN fl + 1 ELSE fl, 100)

\* the float columns of the three tables that are not in int_cols
FloatCols == {"Predicted_Attendance"}

\* the columns of int_cols that reach line 186 as floats
FloatCounts == {"Matches"}

RoundInt_floor(q) == IF IsNaNQ(q) THEN NaN ELSE q.n \div q.d

\* line 186 on a float cell: round() to the nearest integer, ties to the
\* even one, then astype('Int64'); a missing cell stays missing
RoundInt(q) ==
    IF IsNaNQ(q) THEN NaN
    ELSE LET fl == q.n \div q.d
             rem == q.n % q.d
         IN  IF 2 * rem > q.d \/ (2 * rem = q.d /\ fl % 2 = 1) THEN fl + 1 ELSE fl

\* line 186 leaves an integer cell as it is and a missing cell missing;
\* line 189 rounds every other float cell
EnforceRow(row) ==
    [k \in DOMAIN row |->
        IF k \in FloatCounts THEN RoundInt(row[k])
        ELSE IF k \in FloatCols THEN Round2(row[k])
        ELSE row[k]]

enforce_types(df) == [i \in DOMAIN df |-> EnforceRow(df[i])]

Return ==
    /\ pc = "metrics"
    /\ train_df' = enforce_types(train_df)
    /\ test_df' = enforce_types(test_df)
    /\ future_df' = IF future_df.present
                    THEN [present |-> TRUE, rows |-> enforce_types(future_df.rows)]
                    ELSE future_df
    /\ pc' = "done"
    /\ UNCHANGED <<model_df, feature_cols, split_year, forecast_years, features,
                   model, ci, future_rows, natVars, wslVars, uidVars, helperVars>>

-----------------------------------------------------------------------------
(* Text.  A text is a sequence of pieces: a piece is a separator (" ", "_", *)
(* ",") or a run of other characters.  A missing text cell is NaText.       *)

NaText == <<"<NA>">>

RECURSIVE ReplacePiece(_, _, _)
\* str.replace(old, new, regex=False) for a one-piece old; new is a text
ReplacePiece(t, old, new) ==
    IF t = <<>> THEN <<>>
    ELSE (IF Head(t) = old THEN new ELSE <<Head(t)>>) \o ReplacePiece(Tail(t), old, new)

\* Series.str.replace leaves a missing value missing
StrReplace(t, old, new) == IF t = NaText THEN NaText ELSE ReplacePiece(t, old, new)

FirstSpace(t) ==
    IF \E i \in DOMAIN t : t[i] = " "
    THEN CHOOSE i \in DOMAIN t : t[i] = " " /\ \A j \in 1..(i - 1) : t[j] # " "
    ELSE 0

AfterFirstSpace_last(t) ==
    IF t = NaText \/ FirstSpace(t) = 0 THEN NaText
    ELSE LET k == CHOOSE i \in DOMAIN t : t[i] = " " /\ \A j \in (i + 1)..Len(t) : t[j] # " "
         IN  SubSeq(t, k + 1, Len(t))

\* Series.str.split(' ', n=1).str[1]: the text after the first space, or a
\* missing value when there is no space
AfterFirstSpace(t) ==
    IF t = NaText \/ FirstSpace(t) = 0 THEN NaText
    ELSE SubSeq(t, FirstSpace(t) + 1, Len(t))

\* astype(str): a missing value becomes the text 'nan'
AsStr(t) == IF t = NaText THEN <<"nan">> ELSE t

RECURSIVE StripLeft(_)
StripLeft(t) == IF t # <<>> /\ Head(t) = " " THEN StripLeft(Tail(t)) ELSE t

RECURSIVE StripRight(_)
StripRight(t) ==
    IF t # <<>> /\ t[Len(t)] = " " THEN StripRight(SubSeq(t, 1, Len(t) - 1)) ELSE t

\* str.strip()
Strip(t) == StripRight(StripLeft(t))

DigitVal ==
    [c \in {"0", "1", "2", "3", "4", "5", "6", "7", "8", "9"} |->
        CASE c = "0" -> 0 [] c = "1" -> 1 [] c = "2" -> 2 [] c = "3" -> 3
          [] c = "4" -> 4 [] c = "5" -> 5 [] c = "6" -> 6 [] c = "7" -> 7
          [] c = "8" -> 8 [] c = "9" -> 9]

RECURSIVE DigitsValue(_)
DigitsValue(t) ==
    IF t = <<>> THEN 0
    ELSE 10 * DigitsValue(SubSeq(t, 1, Len(t) - 1)) + DigitVal[t[Len(t)]]

\* pd.to_numeric(errors='coerce') on the digit texts of the model: a run of
\* digits parses, anything else (also '' and 'nan') becomes a missing value
ToNumeric(t) ==
    IF t # <<>> /\ \A i \in DOMAIN t : t[i] \in DOMAIN DigitVal
    THEN QInt(DigitsValue(t))
    ELSE NaNQ

NumericCell_keepcommas(t) == ToNumeric(Strip(AsStr(t)))

\* convert_to_numeric on one cell: astype(str), drop commas, strip, parse
NumericCell(t) == ToNumeric(Strip(ReplacePiece(AsStr(t), ",", <<>>)))

RECURSIVE JoinTexts(_, _)
\* sep.join(parts)
JoinTexts(parts, sep) ==
    IF parts = <<>> THEN <<>>
    ELSE IF Len(parts) = 1 THEN Head(parts)
    ELSE Head(parts) \o sep \o JoinTexts(Tail(parts), sep)

-----------------------------------------------------------------------------
(* Configuration of the nationality cleaner.                               *)

NATIONALITY_COL_MAP ==
    [c \in {"Rk", "Nation", "# Players", "Min", "List"} |->
        CASE c = "Rk" -> "Rank"
          [] c = "Nation" -> "Nationality"
          [] c = "# Players" -> "Num_Players"
          [] c = "Min" -> "Minutes_Played"
          [] c = "List" -> "List_of_Players"]

\* as python reads it: 'Belgium' 'Norway' has no comma between the two
\* literals, which makes them one string
EURO_COUNTRIES ==
    << <<"England">>,
       <<"Wales">>,
       <<"Scotland">>,
       <<"Republic", "_", "of", "_", "Ireland">>,
       <<"Netherlands">>,
       <<"Germany">>,
       <<"Sweden">>,
       <<"Northern", "_", "Ireland">>,
       <<"Belgium">> \o <<"Norway">>,
       <<"Denmark">>,
       <<"Switzerland">>,
       <<"Austria">>,
       <<"Finland">>,
       <<"France">>,
       <<"Iceland">>,
       <<"Portugal">>,
       <<"Poland">>,
       <<"Spain">>,
       <<"Czech", "_", "Republic">>,
       <<"Greece">>,
       <<"Italy">>,
       <<"Russia">>,
       <<"Slovenia">>,
       <<"Serbia">>,
       <<"Hungary">> >>

-----------------------------------------------------------------------------
(* Generic helpers of data_utils.py used by the nationality cleaner.       *)

\* df.rename(columns=columns_map) on one row
RenameRow(row, columns_map) ==
    LET NewName(c) == IF c \in DOMAIN columns_map THEN columns_map[c] ELSE c
    IN  [k \in {NewName(c) : c \in DOMAIN row} |->
            row[CHOOSE c \in DOMAIN row : NewName(c) = k]]

convert_column_names(df, columns_map) ==
    [i \in DOMAIN df |-> RenameRow(df[i], columns_map)]

create_unique_id_reversed(df, columns, new_column) ==
    [i \in DOMAIN df |->
        Put(df[i], new_column,
            JoinTexts([j \in DOMAIN columns |->
                          AsStr(df[i][columns[Len(columns) + 1 - j]])], <<"_">>))]

\* df[new_column] = df[columns].astype(str).agg("_".join, axis=1)
create_unique_id(df, columns, new_column) ==
    [i \in DOMAIN df |->
        Put(df[i], new_column,
            JoinTexts([j \in DOMAIN columns |-> AsStr(df[i][columns[j]])], <<"_">>))]

RECURSIVE convert_to_numeric(_, _)
convert_to_numeric(df, columns) ==
    IF columns = <<>> THEN df
    ELSE convert_to_numeric(
            [i \in DOMAIN df |->
                Put(df[i], Head(columns), NumericCell(df[i][Head(columns)]))],
            Tail(columns))

-----------------------------------------------------------------------------
(* wsl_utils.py: nationality_group and process_nationality_data.           *)

nationality_group_flagfirst(row) ==
    IF row["euro_flag"] = 1 THEN "European (excl. Eng)"
    ELSE IF row["Nationality"] = <<"England">> THEN "English"
    ELSE "Non-European"

nationality_group(row) ==
    IF row["Nationality"] = <<"England">> THEN "English"
    ELSE IF row["euro_flag"] = 1 THEN "European (excl. Eng)"
    ELSE "Non-European"

EuroFlag_foreign(x) == IF x \in Range(EURO_COUNTRIES) \ {<<"England">>} THEN 1 ELSE 0

\* line 133: lambda x: 1 if x in EURO_COUNTRIES else 0
EuroFlag(x) == IF x \in Range(EURO_COUNTRIES) THEN 1 ELSE 0

SeasonText_endfirst(years) == <<ToString(years[2]), "_", ToString(years[1])>>

\* f'{start_year}_{end_year}'
SeasonText(years) == <<ToString(years[1]), "_", ToString(years[2])>>

\* lines 117-120: the two assignments that act on the caller's table itself
NationInPlace(df) ==
    LET s1 == [i \in DOMAIN df |-> Put(df[i], "Nation", AsStr(df[i]["Nation"]))]
    IN  [i \in DOMAIN df |->
            Put(s1[i], "Nation",
                StrReplace(AfterFirstSpace(s1[i]["Nation"]), " ", <<"_">>))]

\* lines 116-134 on a non-empty table
CleanNationality(df, years) ==
    LET s2 == NationInPlace(df)
        s3 == convert_column_names(s2, NATIONALITY_COL_MAP)
        s4 == [i \in DOMAIN df |-> Put(s3[i], "season", SeasonText(years))]
        s5 == create_unique_id(s4, <<"season", "Rank">>, "Season_Rank")
        s6 == convert_to_numeric(s5, <<"Num_Players", "Minutes_Played">>)
        s7 == [i \in DOMAIN df |->
                  Put(s6[i], "euro_flag", EuroFlag(s6[i]["Nationality"]))]
    IN  [i \in DOMAIN df |-> Put(s7[i], "group", nationality_group(s7[i]))]

\* lines 111-113: df is None or df.empty
NatSkip ==
    /\ nat_pc = "start"
    /\ (~nat_in.present \/ nat_in.rows = <<>>)
    /\ nat_out' = nat_in
    /\ nat_pc' = "done"
    /\ UNCHANGED <<fitVars, nat_in, nat_years, grp_row, grp_out, grp_pc, wslVars, uidVars, helperVars>>

\* .str[1] of line 120 is a float64 column when no row has a second part,
\* and .str.replace raises AttributeError on it
NationalityRaises(df) ==
    \A i \in DOMAIN df : AfterFirstSpace(AsStr(df[i]["Nation"])) = NaText

\* the exception leaves process_nationality_data after line 117 has
\* written to the caller's table
NatRaise ==
    /\ nat_pc = "start"
    /\ nat_in.present
    /\ nat_in.rows # <<>>
    /\ NationalityRaises(nat_in.rows)
    /\ nat_in' = [present |-> TRUE,
                  rows |-> [i \in DOMAIN nat_in.rows |->
                              Put(nat_in.rows[i], "Nation", AsStr(nat_in.rows[i]["Nation"]))]]
    /\ nat_pc' = "raised"
    /\ UNCHANGED <<fitVars, nat_years, nat_out, grp_row, grp_out, grp_pc, wslVars, uidVars, helperVars>>

NatClean ==
    /\ nat_pc = "start"
    /\ nat_in.present
    /\ nat_in.rows # <<>>
    /\ ~NationalityRaises(nat_in.rows)
    /\ nat_in' = [present |-> TRUE, rows |-> NationInPlace(nat_in.rows)]
    /\ nat_out' = [present |-> TRUE, rows |-> CleanNationality(nat_in.rows, nat_years)]
    /\ nat_pc' = "done"
    /\ UNCHANGED <<fitVars, nat_years, grp_row, grp_out, grp_pc, wslVars, uidVars, helperVars>>

\* one call of nationality_group on a row
Classify ==
    /\ grp_pc = "start"
    /\ grp_out' = nationality_group(grp_row)
    /\ grp_pc' = "done"
    /\ UNCHANGED <<fitVars, nat_in, nat_years, nat_out, nat_pc, grp_row, wslVars, uidVars, helperVars>>

-----------------------------------------------------------------------------
(* Inputs of the nationality cleaner.                                      *)

MaxNatRows == 2

RawNations ==
    { <<"eng", " ", "England">>,
      <<"wal", " ", "Wales">>,
      <<"ie", " ", "Republic", " ", "of", " ", "Ireland">>,
      <<"be", " ", "Belgium">>,
      <<"no", " ", "Norway">>,
      <<"us", " ", "United", " ", "States">>,
      <<"jp", " ", "Japan">>,
      <<"England">>,
      <<"Wales">>,
      <<"eng", " ">>,
      NaText }

\* the player-count and minutes texts of the row at each position
NumPlayersAt ==
    << <<"1", "1">>, <<"N", "/", "A">>, <<" ", "7", " ">>, <<>> >>
MinutesAt ==
    << <<"1", ",", "2", "3", "4">>, <<"9", "0">>, NaText, <<"1", "2", ",">> >>

NatSeasons == { <<2020, 2021>>, <<2021, 2022>> }

RawNatRow(i, rk, nation) ==
    [k \in {"Rk", "Nation", "# Players", "Min", "List"} |->
        CASE k = "Rk" -> <<ToString(rk)>>
          [] k = "Nation" -> nation
          [] k = "# Players" -> NumPlayersAt[i]
          [] k = "Min" -> MinutesAt[i]
          [] OTHER -> <<"names">>]

RawNatTables ==
    { [present |-> TRUE,
       rows |-> [i \in DOMAIN t |-> RawNatRow(i, t[i].rk, t[i].nation)]] :
        t \in UNION { [1..n -> [rk : 1..2, nation : RawNations]] : n \in 0..MaxNatRows } }
    \cup {NoTable}

NatIdle ==
    /\ nat_in = NoTable
    /\ nat_years = <<0, 0>>
    /\ nat_out = NoTable
    /\ nat_pc = "idle"

\* the flag values a caller's row may hold
FlagValues == {0, 1, 2, NaN}

CleanedTokens(nations) == {StrReplace(AfterFirstSpace(AsStr(n)), " ", <<"_">>) : n \in nations}

NationalityValues == CleanedTokens(RawNations) \cup Range(EURO_COUNTRIES) \cup {<<"england">>}

GrpIdle ==
    /\ grp_row = [Nationality |-> NaText, euro_flag |-> 0]
    /\ grp_out = "none"
    /\ grp_pc = "idle"

-----------------------------------------------------------------------------
(* Text operations of the season cleaner.  "-" is a piece of its own too,  *)
(* so that ' - ' is the three pieces " ", "-", " " and 'Club Crest ' the    *)
(* four pieces "Club", " ", "Crest", " ".                                   *)

StartsWith(t, sub) == Len(t) >= Len(sub) /\ SubSeq(t, 1, Len(sub)) = sub

RECURSIVE ReplaceSub(_, _, _)
\* str.replace(sub, new) with regex=False: every occurrence, left to right
ReplaceSub(t, sub, new) ==
    IF t = <<>> THEN <<>>
    ELSE IF StartsWith(t, sub)
         THEN new \o ReplaceSub(SubSeq(t, Len(sub) + 1, Len(t)), sub, new)
    ELSE <<Head(t)>> \o ReplaceSub(Tail(t), sub, new)

\* the position of the first occurrence of sub in t, 0 when there is none
FindSub(t, sub) ==
    LET At(i) == i + Len(sub) - 1 <= Len(t) /\ SubSeq(t, i, i + Len(sub) - 1) = sub
    IN  IF \E i \in DOMAIN t : At(i)
        THEN CHOOSE i \in DOMAIN t : At(i) /\ \A j \in 1..(i - 1) : ~At(j)
        ELSE 0

RECURSIVE SplitOn(_, _)
\* str.split(sep) for a one-piece separator: the parts, in order
SplitOn(t, sep) ==
    IF \A i \in DOMAIN t : t[i] # sep THEN <<t>>
    ELSE LET k == CHOOSE i \in DOMAIN t : t[i] = sep /\ \A j \in 1..(i - 1) : t[j] # sep
         IN  <<SubSeq(t, 1, k - 1)>> \o SplitOn(SubSeq(t, k + 1, Len(t)), sep)

\* the substring remove_string_parts is called with, line 56
CLUB_CREST == <<"Club", " ", "Crest", " ">>

\* the separator of line 70
DASH == <<" ", "-", " ">>

RemoveStringPart_first(t, substring) ==
    LET k == FindSub(AsStr(t), substring)
    IN  IF k = 0 THEN AsStr(t)
        ELSE SubSeq(AsStr(t), 1, k - 1) \o SubSeq(AsStr(t), k + Len(substring), Len(AsStr(t)))

\* data_utils.py line 41 on one cell
RemoveStringPart(t, substring) == ReplaceSub(AsStr(t), substring, <<>>)

remove_string_parts_first(df, column, substring) ==
    [i \in DOMAIN df |->
        Put(df[i], column, RemoveStringPart_first(df[i][column], substring))]

\* remove_string_parts(df, column, substring)
remove_string_parts(df, column, substring) ==
    [i \in DOMAIN df |-> Put(df[i], column, RemoveStringPart(df[i][column], substring))]

SEASON_COL_MAP ==
    [c \in {"Rk", "Squad", "MP", "W", "D", "L", "GF", "GA", "GD", "Pts", "xG", "xGA",
            "xGD", "xGD/90", "Pts/MP", "Attendance", "Top Team Scorer", "Goalkeeper"} |->
        CASE c = "Rk" -> "Rank"
          [] c = "Squad" -> "Club"
          [] c = "MP" -> "Matches"
          [] c = "W" -> "Wins"
          [] c = "D" -> "Draws"
          [] c = "L" -> "Losses"
          [] c = "GF" -> "Goals_For"
          [] c = "GA" -> "Goals_Against"
          [] c = "GD" -> "Goal_Difference"
          [] c = "Pts" -> "Points"
          [] c = "xG" -> "Expected_Goals"
          [] c = "xGA" -> "Expected_Goals_Allowed"
          [] c = "xGD" -> "Expected_Goals_Difference"
          [] c = "xGD/90" -> "Expected_Goals_Difference_Per_90_Mins"
          [] c = "Pts/MP" -> "Points_Per_Match"
          [] c = "Attendance" -> "Attendance"
          [] c = "Top Team Scorer" -> "Top_Scorer"
          [] c = "Goalkeeper" -> "Goalkeeper"]

-----------------------------------------------------------------------------
(* wsl_utils.py: process_wsl_data, and load_csv_data in front of it.       *)
(* A season table is [present, cols, rows]: None is the table that is not  *)
(* present, and a table with no row still has its columns.                 *)

NoSeasonTable == [present |-> FALSE, cols |-> {}, rows |-> <<>>]

\* Series.str.split(' - ', n=1, expand=True) on one cell: the parts
SplitDash(t) ==
    IF t = NaText THEN <<NaText>>
    ELSE IF FindSub(t, DASH) = 0 THEN <<t>>
    ELSE <<SubSeq(t, 1, FindSub(t, DASH) - 1),
           SubSeq(t, FindSub(t, DASH) + Len(DASH), Len(t))>>

\* split_df.shape[1]: the expanded frame is as wide as the longest split
SplitWidth(df) ==
    IF \E i \in DOMAIN df : Len(SplitDash(df[i]["Top_Scorer"])) > 1 THEN 2 ELSE 1

\* split_df[k] in row i: a shorter split is padded with missing values
SplitPart(df, i, k) ==
    LET parts == SplitDash(df[i]["Top_Scorer"])
    IN  IF k <= Len(parts) THEN parts[k] ELSE NaText

NormaliseName_nostrip(x) ==
    IF x = NaText THEN x
    ELSE LET parts == SplitOn(x, ",")
         IN  JoinTexts([j \in DOMAIN parts |-> ReplacePiece(parts[j], " ", <<"_">>)],
                       <<",", " ">>)

\* lines 76-79: the lambda applied to Top_Scorer_Name
NormaliseName(x) ==
    IF x = NaText THEN x
    ELSE LET parts == SplitOn(x, ",")
         IN  JoinTexts([j \in DOMAIN parts |-> ReplacePiece(Strip(parts[j]), " ", <<"_">>)],
                       <<",", " ">>)

SeasonInPlace_seasonid(df, years) ==
    LET s1 == remove_string_parts(df, "Squad", CLUB_CREST)
        s2 == [i \in DOMAIN df |->
                  Put(s1[i], "Squad", StrReplace(s1[i]["Squad"], " ", <<"_">>))]
        s3 == [i \in DOMAIN df |-> Put(s2[i], "season", SeasonText(years))]
    IN  create_unique_id(s3, <<"season", "season">>, "unique_ID")

\* lines 56-63: the steps that act on the caller's table itself
SeasonInPlace(df, years) ==
    LET s1 == remove_string_parts(df, "Squad", CLUB_CREST)
        s2 == [i \in DOMAIN df |->
                  Put(s1[i], "Squad", StrReplace(s1[i]["Squad"], " ", <<"_">>))]
        s3 == [i \in DOMAIN df |-> Put(s2[i], "season", SeasonText(years))]
    IN  create_unique_id(s3, <<"Squad", "season">>, "unique_ID")

\* lines 70-79: the branch of a table that has a Top_Scorer column
SplitTopScorer(df) ==
    LET s1 == [i \in DOMAIN df |->
                  Put(df[i], "Top_Scorer_Name", SplitPart(df, i, 1))]
        s2 == [i \in DOMAIN df |->
                  Put(s1[i], "Top_Scorer_Goals",
                      IF SplitWidth(df) > 1 THEN SplitPart(df, i, 2) ELSE NaText)]
        s3 == convert_to_numeric(s2, <<"Top_Scorer_Goals">>)
    IN  [i \in DOMAIN df |->
            Put(s3[i], "Top_Scorer_Name", NormaliseName(s3[i]["Top_Scorer_Name"]))]

NoTopScorer_zero(df) ==
    [i \in DOMAIN df |->
        Put(Put(df[i], "Top_Scorer_Name", NaText), "Top_Scorer_Goals", QInt(0))]

\* lines 81-83: pd.NA in both columns; the missing number is written NaNQ,
\* as the missing numbers of line 74 are
NoTopScorer(df) ==
    [i \in DOMAIN df |->
        Put(Put(df[i], "Top_Scorer_Name", NaText), "Top_Scorer_Goals", NaNQ)]

\* lines 69-83 on the renamed table
TopScorerColumns(df) ==
    IF "Top_Scorer" \in DOMAIN df[1] THEN SplitTopScorer(df) ELSE NoTopScorer(df)

\* lines 56-90 on a non-empty table
CleanSeason(df, years) ==
    LET s4 == SeasonInPlace(df, years)
        s5 == convert_column_names(s4, SEASON_COL_MAP)
        s6 == TopScorerColumns(s5)
    IN  convert_to_numeric(s6, <<"Attendance">>)

\* a column pd.read_csv found no value in is a float64 column, and
\* Series.str raises AttributeError on it (line 70)
FloatColumn(df, column) == \A i \in DOMAIN df : df[i][column] = NaText

\* the lookups of lines 56 and 86 raise KeyError on a missing column
SeasonRaises(t) ==
    \/ "Squad" \notin t.cols
    \/ "Top Team Scorer" \in t.cols /\ FloatColumn(t.rows, "Top Team Scorer")
    \/ "Attendance" \notin t.cols

LoadedTable_blank(f) ==
    IF f.use = "season"
    THEN (IF f.kind = "missing" THEN [present |-> TRUE, cols |-> {}, rows |-> <<>>]
          ELSE f.season)
    ELSE (IF f.kind = "missing" THEN [present |-> TRUE, rows |-> <<>>] ELSE f.nat)

\* data_utils.py lines 19-25: a path that does not exist gives None
LoadedTable(f) ==
    IF f.use = "season"
    THEN (IF f.kind = "missing" THEN NoSeasonTable ELSE f.season)
    ELSE (IF f.kind = "missing" THEN NoTable ELSE f.nat)

\* load_csv_data, its result handed to one of the two cleaners
Load ==
    /\ load_pc = "start"
    /\ file.kind # "empty"
    /\ load_pc' = "done"
    /\ IF file.use = "season"
       THEN /\ wsl_in' = LoadedTable(file)
            /\ wsl_pc' = "start"
            /\ UNCHANGED <<nat_in, nat_pc>>
       ELSE /\ nat_in' = LoadedTable(file)
            /\ nat_pc' = "start"
            /\ UNCHANGED <<wsl_in, wsl_pc>>
    /\ UNCHANGED <<fitVars, nat_years, nat_out, grp_row, grp_out, grp_pc,
                   file, wsl_years, wsl_out, uidVars, helperVars>>

\* pd.read_csv raises EmptyDataError on a file of zero bytes
LoadRaise ==
    /\ load_pc = "start"
    /\ file.kind = "empty"
    /\ load_pc' = "raised"
    /\ UNCHANGED <<fitVars, natVars, file, wsl_in, wsl_years, wsl_out, wsl_pc, uidVars, helperVars>>

\* lines 49-51: df is None or df.empty
WslSkip ==
    /\ wsl_pc = "start"
    /\ (~wsl_in.present \/ wsl_in.rows = <<>>)
    /\ wsl_out' = wsl_in
    /\ wsl_pc' = "done"
    /\ UNCHANGED <<fitVars, natVars, file, load_pc, wsl_in, wsl_years, uidVars, helperVars>>

\* an exception leaves process_wsl_data; lines 56-63 have already written
\* to the caller's table unless the first lookup failed
WslRaise ==
    /\ wsl_pc = "start"
    /\ wsl_in.present
    /\ wsl_in.rows # <<>>
    /\ SeasonRaises(wsl_in)
    /\ wsl_in' = IF "Squad" \notin wsl_in.cols THEN wsl_in
                 ELSE LET rows == SeasonInPlace(wsl_in.rows, wsl_years)
                      IN  [present |-> TRUE, cols |-> DOMAIN rows[1], rows |-> rows]
    /\ wsl_pc' = "raised"
    /\ UNCHANGED <<fitVars, natVars, file, load_pc, wsl_years, wsl_out, uidVars, helperVars>>

WslClean ==
    /\ wsl_pc = "start"
    /\ wsl_in.present
    /\ wsl_in.rows # <<>>
    /\ ~SeasonRaises(wsl_in)
    /\ LET rows == SeasonInPlace(wsl_in.rows, wsl_years)
           out == CleanSeason(wsl_in.rows, wsl_years)
       IN  /\ wsl_in' = [present |-> TRUE, cols |-> DOMAIN rows[1], rows |-> rows]
           /\ wsl_out' = [present |-> TRUE, cols |-> DOMAIN out[1], rows |-> out]
    /\ wsl_pc' = "done"
    /\ UNCHANGED <<fitVars, natVars, file, load_pc, wsl_years, uidVars, helperVars>>

-----------------------------------------------------------------------------
(* Inputs of the season cleaner.                                           *)

MaxWslRows == 2

RawSquads ==
    { <<"Club", " ", "Crest", " ", "Arsenal">>,
      <<"Arsenal">>,
      <<"Club", " ", "Crest", " ", "Manchester", " ", "City">>,
      <<"West", " ", "Ham", " ", "United">>,
      <<"Club", " ", "Crest", " ", "Club", " ", "Crest", " ", "Chelsea">>,
      NaText }

\* the top-scorer texts the rows are drawn from
ScorerList ==
    << <<"Vivianne", " ", "Miedema", " ", "-", " ", "1", "4">>,
       <<"Sam", " ", "Kerr", ",", " ", "Beth", " ", "Mead", " ", "-", " ", "1", "2">>,
       <<"Bethany", " ", "England">>,
       <<" ", "Kerr", " ", ",", " ", " ", "Mead", " ", " ", "-", " ", "x">>,
       <<"Ji", " ", "So", "-", "yun", " ", "-", " ", " ", "1", ",", "0", " ">>,
       <<"Kelly", " ", "-", " ", "Hemp", " ", "-", " ", "3">>,
       NaText >>

RawScorers == Range(ScorerList)

\* the top-scorer texts of the rows at each position: the list from each
\* of its entries on, and a column with no value at all
ScorerPatterns ==
    { [i \in 1..(MaxWslRows + 1) |-> ScorerList[((k + i - 2) % Len(ScorerList)) + 1]] :
        k \in DOMAIN ScorerList }
        \cup { [i \in 1..(MaxWslRows + 1) |-> NaText] }

\* the attendance texts of the rows at each position, two ways
AttendancePatterns ==
    { << <<"1", ",", "2", "3", "4">>, <<"N", "/", "A">>, <<" ", "9", "0", " ">>, <<>> >>,
      << <<>>, NaText, <<"1", "2", ",">>, <<"1", " ", "2">> >> }

WslSeasons == { <<2020, 2021>>, <<2021, 2022>> }

RawSeasonRow(i, squad, scorer, att) ==
    [k \in {"Rk", "Squad", "Pts", "Attendance", "Top Team Scorer"} |->
        CASE k = "Rk" -> <<ToString(i)>>
          [] k = "Squad" -> squad
          [] k = "Pts" -> <<ToString(i), "0">>
          [] k = "Attendance" -> att[i]
          [] OTHER -> scorer]

\* a table of the same file without one of its columns
WithoutColumn(t, c) ==
    [present |-> TRUE,
     cols |-> t.cols \ {c},
     rows |-> [i \in DOMAIN t.rows |-> [k \in DOMAIN t.rows[i] \ {c} |-> t.rows[i][k]]]]

FullSeasonTables ==
    { [present |-> TRUE,
       cols |-> {"Rk", "Squad", "Pts", "Attendance", "Top Team Scorer"},
       rows |-> [i \in DOMAIN t |-> RawSeasonRow(i, t[i], sc[i], att)]] :
        t \in UNION { [1..n -> RawSquads] : n \in 0..MaxWslRows },
        sc \in ScorerPatterns,
        att \in AttendancePatterns }

\* every table, the same without its top-scorer column, and that without
\* its attendance column
RawSeasonTables ==
    FullSeasonTables
        \cup { WithoutColumn(t, "Top Team Scorer") : t \in FullSeasonTables }
        \cup { WithoutColumn(WithoutColumn(t, "Top Team Scorer"), "Attendance") :
                 t \in FullSeasonTables }

\* the few nationality files of the season specification
SeasonNatTables ==
    { [present |-> TRUE, rows |-> <<>>],
      [present |-> TRUE, rows |-> <<RawNatRow(1, 1, <<"eng", " ", "England">>)>>],
      [present |-> TRUE, rows |-> <<RawNatRow(1, 1, <<"England">>)>>] }

Files ==
    [kind : {"missing", "empty"}, use : {"season", "nationality"},
     season : {NoSeasonTable}, nat : {NoTable}]
        \cup [kind : {"csv"}, use : {"season"}, season : RawSeasonTables, nat : {NoTable}]
        \cup [kind : {"csv"}, use : {"nationality"}, season : {NoSeasonTable},
              nat : SeasonNatTables]

NoFile == [kind |-> "missing", use |-> "season", season |-> NoSeasonTable, nat |-> NoTable]

WslIdle ==
    /\ file = NoFile
    /\ load_pc = "idle"
    /\ wsl_in = NoSeasonTable
    /\ wsl_years = <<0, 0>>
    /\ wsl_out = NoSeasonTable
    /\ wsl_pc = "idle"

-----------------------------------------------------------------------------
(* create_unique_id on its own, data_utils.py lines 58-70.                 *)

MissingIdColumn(df, columns) == \E j \in DOMAIN columns : columns[j] \notin DOMAIN df[1]

UidRaise_partial ==
    /\ uid_pc = "start"
    /\ MissingIdColumn(uid_in, uid_cols)
    /\ uid_in' = [i \in DOMAIN uid_in |-> Put(uid_in[i], uid_new, <<>>)]
    /\ uid_pc' = "raised"
    /\ UNCHANGED <<fitVars, natVars, wslVars, helperVars, uid_before, uid_cols, uid_new, uid_out>>

\* df[columns] raises KeyError before anything is written
UidRaise ==
    /\ uid_pc = "start"
    /\ MissingIdColumn(uid_in, uid_cols)
    /\ uid_pc' = "raised"
    /\ UNCHANGED <<fitVars, natVars, wslVars, helperVars, uid_before, uid_in, uid_cols, uid_new, uid_out>>

\* the column is written into the caller's table, which is also returned
UidApply ==
    /\ uid_pc = "start"
    /\ ~MissingIdColumn(uid_in, uid_cols)
    /\ uid_in' = create_unique_id(uid_in, uid_cols, uid_new)
    /\ uid_out' = uid_in'
    /\ uid_pc' = "done"
    /\ UNCHANGED <<fitVars, natVars, wslVars, helperVars, uid_before, uid_cols, uid_new>>

MaxUidRows == 2

UidSquads == { <<"Arsenal">>, <<"Manchester", "_", "City">>, <<"Chelsea">>, NaText }

UidSeasons == { <<"2020", "_", "2021">>, <<"2021", "_", "2022">> }

UidRow(i, squad, season) ==
    [k \in {"Squad", "season", "Points"} |->
        CASE k = "Squad" -> squad
          [] k = "season" -> season
          [] OTHER -> <<ToString(i), "0">>]

UidFullTables ==
    { [i \in DOMAIN t |-> UidRow(i, t[i].squad, t[i].season)] :
        t \in UNION { [1..n -> [squad : UidSquads, season : UidSeasons]] :
                        n \in 1..MaxUidRows } }

\* every table, and the same without its season column
UidTables ==
    UidFullTables
        \cup { [i \in DOMAIN t |-> [k \in {"Squad", "Points"} |-> t[i][k]]] :
                 t \in UidFullTables }

UidColumnLists ==
    { <<"Squad", "season">>, <<"season", "Squad">>, <<"Squad">>, <<"Points", "Squad", "season">> }

UidNewColumns == {"unique_ID", "Squad"}

UidIdle ==
    /\ uid_before = <<>>
    /\ uid_in = <<>>
    /\ uid_cols = <<>>
    /\ uid_new = "unique_ID"
    /\ uid_out = <<>>
    /\ uid_pc = "idle"

-----------------------------------------------------------------------------
(* convert_column_names on the column labels, data_utils.py lines 45-55.   *)
(* Here a table is the sequence of its columns, each a label and its       *)
(* data: DataFrame.rename gives every column the mapped label, keeps the   *)
(* columns in place, and returns a new table.                              *)

RenameColumns_reorder(df, columns_map) ==
    LET kept == SelectSeq(df, LAMBDA c : c.name \notin DOMAIN columns_map)
        moved == SelectSeq(df, LAMBDA c : c.name \in DOMAIN columns_map)
    IN  kept \o [i \in DOMAIN moved |->
                    [name |-> columns_map[moved[i].name], data |-> moved[i].data]]

\* df.rename(columns=columns_map)
RenameColumns(df, columns_map) ==
    [i \in DOMAIN df |->
        [name |-> IF df[i].name \in DOMAIN columns_map THEN columns_map[df[i].name]
                  ELSE df[i].name,
         data |-> df[i].data]]

\* {new: old for old, new in columns_map.items()}
InverseMap(columns_map) ==
    [v \in {columns_map[k] : k \in DOMAIN columns_map} |->
        CHOOSE k \in DOMAIN columns_map : columns_map[k] = v]

\* the first call, with the mapping
Rename ==
    /\ ren_pc = "start"
    /\ ren_out' = RenameColumns(ren_in, ren_map)
    /\ ren_pc' = "renamed"
    /\ UNCHANGED <<fitVars, natVars, wslVars, uidVars, ren_in, ren_map, splVars, remVars,
                   plotVars>>

\* the second call, on the first one's result and with the inverse mapping
RenameBack ==
    /\ ren_pc = "renamed"
    /\ ren_out' = RenameColumns(ren_out, InverseMap(ren_map))
    /\ ren_pc' = "back"
    /\ UNCHANGED <<fitVars, natVars, wslVars, uidVars, ren_in, ren_map, splVars, remVars,
                   plotVars>>

MaxRenCols == 3

ColumnNames == {"A", "B", "C", "X"}

\* the tables of one to MaxRenCols distinct columns
RenTables ==
    { [i \in DOMAIN t |-> [name |-> t[i], data |-> <<"data of", t[i]>>]] :
        t \in { u \in UNION { [1..n -> ColumnNames] : n \in 1..MaxRenCols } :
                  \A i, j \in DOMAIN u : i # j => u[i] # u[j] } }

\* the injective mappings between column names
InjectiveMaps ==
    { m \in UNION { [K -> ColumnNames] : K \in SUBSET ColumnNames } :
        \A a, b \in DOMAIN m : a # b => m[a] # m[b] }

RenIdle ==
    /\ ren_in = <<>>
    /\ ren_map = <<>>
    /\ ren_out = <<>>
    /\ ren_pc = "idle"

-----------------------------------------------------------------------------
(* split_column on its own, data_utils.py lines 73-90.                     *)

RECURSIVE SplitSub(_, _)
\* str.split(separator): the parts between all the separators, in order
SplitSub(t, sep) ==
    IF FindSub(t, sep) = 0 THEN <<t>>
    ELSE <<SubSeq(t, 1, FindSub(t, sep) - 1)>>
             \o SplitSub(SubSeq(t, FindSub(t, sep) + Len(sep), Len(t)), sep)

\* split_data[j - 1] in row i: expand=True pads a shorter split with None,
\* and a position no row reaches is not a column of split_data (line 88)
SplitCell(df, column, separator, i, j) ==
    LET parts == SplitSub(AsStr(df[i][column]), separator)
    IN  IF j <= Len(parts) THEN parts[j] ELSE NaText

\* lines 85-90
split_column(df, column, separator, new_columns) ==
    [i \in DOMAIN df |->
        PutAll(df[i], new_columns,
               [c \in Range(new_columns) |->
                   SplitCell(df, column, separator, i,
                             CHOOSE j \in DOMAIN new_columns :
                                 /\ new_columns[j] = c
                                 /\ \A k \in (j + 1)..Len(new_columns) : new_columns[k] # c)])]

\* the columns are written into the caller's table, which is also returned
SplitApply ==
    /\ spl_pc = "start"
    /\ spl_in' = split_column(spl_in, "scorer", DASH, spl_new)
    /\ spl_out' = spl_in'
    /\ spl_pc' = "done"
    /\ UNCHANGED <<fitVars, natVars, wslVars, uidVars, renVars, remVars, spl_before, spl_new,
                   plotVars>>

MaxSplRows == 2

SplitValues ==
    { <<"A", " ", "-", " ", "5">>,
      <<"A">>,
      <<"A", " ", "-", " ", "B", " ", "-", " ", "5">>,
      <<"A", " ", "-", " ">>,
      <<"A", "-", "5">>,
      NaText }

SplitTables ==
    UNION { [1..n -> [scorer : SplitValues, Points : {<<"1", "0">>}]] : n \in 1..MaxSplRows }

SplitNewColumns ==
    { <<"name">>, <<"name", "goals">>, <<"name", "goals", "assists">>,
      <<"name", "goals", "assists", "cards">> }

SplIdle ==
    /\ spl_before = <<>>
    /\ spl_in = <<>>
    /\ spl_new = <<>>
    /\ spl_out = <<>>
    /\ spl_pc = "idle"

-----------------------------------------------------------------------------
(* remove_string_parts on its own, data_utils.py lines 30-42.              *)

\* the column is written into the caller's table, which is also returned
RemoveApply ==
    /\ rem_pc = "start"
    /\ rem_in' = remove_string_parts(rem_in, "Squad", rem_sub)
    /\ rem_out' = rem_in'
    /\ rem_pc' = "done"
    /\ UNCHANGED <<fitVars, natVars, wslVars, uidVars, renVars, splVars, rem_before, rem_sub,
                   plotVars>>

MaxRemRows == 2

RemoveValues ==
    { <<"Club", " ", "Crest", " ", "Arsenal">>,
      <<"Arsenal">>,
      <<"Club", " ", "Crest", " ", "Club", " ", "Crest", " ", "Chelsea">>,
      <<"Club", " ", "Club", " ", "Crest", " ", "Crest", " ", "Everton">>,
      <<"West", " ", "Ham", " ", "Crest", " ", "United">>,
      <<"Club", " ", "Crest", " ">>,
      NaText }

RemoveTables ==
    UNION { [1..n -> [Squad : RemoveValues, Points : {<<"1", "0">>}]] : n \in 1..MaxRemRows }

Substrings == { CLUB_CREST, <<"Crest", " ">>, <<"FC">> }

RemIdle ==
    /\ rem_before = <<>>
    /\ rem_in = <<>>
    /\ rem_sub = <<>>
    /\ rem_out = <<>>
    /\ rem_pc = "idle"

-----------------------------------------------------------------------------
(* The optional save of the chart builders (wsl_plots.py) and of           *)
(* build_dashboard (wsl_dashboard.py).  The reports tree is the set of     *)
(* directories and the set of files below REPORTS_OUT; a path is the       *)
(* sequence of its components.                                             *)

None == "<None>"

REPORTS_OUT == <<"reports">>
PLOTS_DIR == REPORTS_OUT \o <<"plots">>

\* f'wsl_project_{fig_name}.html'
HtmlName(name) == <<"wsl_project_", name, ".html">>

\* the functions of wsl_plots.py that take save_fig and fig_name
ChartBuilders ==
    { "create_club_capacity_attendance_chart", "create_wsl_visual",
      "create_nationality_figure", "create_distribution_visual",
      "create_attendance_capacity_forecast_chart" }

\* the pages build_page_layout knows (wsl_dashboard.py lines 52-148)
KnownPages == {"Attendance", "Points", "Goals", "Nationality"}

\* Path.mkdir(parents=True, exist_ok=True)
Mkdir(d, path) ==
    [d EXCEPT !.dirs = @ \cup {SubSeq(path, 1, k) : k \in 1..Len(path)}]

\* writing a file creates it or replaces it
WriteFile(d, dir, name) == [d EXCEPT !.files = @ \cup {[dir |-> dir, name |-> name]}]

\* wsl_plots.py lines 96-102
save_figure(d, name) == WriteFile(Mkdir(d, PLOTS_DIR), PLOTS_DIR, HtmlName(name))

\* wsl_dashboard.py lines 214-219
SaveDashboard(d, name) == WriteFile(Mkdir(d, REPORTS_OUT), REPORTS_OUT, HtmlName(name))

ChartRaise_late ==
    /\ plot_pc = "start"
    /\ builder \in ChartBuilders
    /\ save_fig
    /\ fig_name = None
    /\ disk' = Mkdir(disk, PLOTS_DIR)
    /\ plot_pc' = "raised_name"
    /\ UNCHANGED <<fitVars, natVars, wslVars, uidVars, renVars, splVars, remVars,
                   builder, pages_dict, save_fig, fig_name, disk_before, fig_out>>

\* a chart builder asked to save without a name: the figure is built, then
\* ValueError('fig_name must be provided when save_fig=True') is raised
ChartRaise ==
    /\ plot_pc = "start"
    /\ builder \in ChartBuilders
    /\ save_fig
    /\ fig_name = None
    /\ plot_pc' = "raised_name"
    /\ UNCHANGED <<fitVars, natVars, wslVars, uidVars, renVars, splVars, remVars,
                   builder, pages_dict, save_fig, fig_name, disk_before, disk,
                   fig_out>>

\* a chart builder that returns its figure, saved first when save_fig is set
ChartReturn ==
    /\ plot_pc = "start"
    /\ builder \in ChartBuilders
    /\ ~(save_fig /\ fig_name = None)
    /\ disk' = IF save_fig THEN save_figure(disk, fig_name) ELSE disk
    /\ fig_out' = builder
    /\ plot_pc' = "done"
    /\ UNCHANGED <<fitVars, natVars, wslVars, uidVars, renVars, splVars, remVars,
                   builder, pages_dict, save_fig, fig_name, disk_before>>

\* build_tabs raises ValueError('Unknown page name: ...') at line 148, before
\* the template is made
DashPageRaise ==
    /\ plot_pc = "start"
    /\ builder = "build_dashboard"
    /\ \E i \in DOMAIN pages_dict : pages_dict[i] \notin KnownPages
    /\ plot_pc' = "raised_page"
    /\ UNCHANGED <<fitVars, natVars, wslVars, uidVars, renVars, splVars, remVars,
                   builder, pages_dict, save_fig, fig_name, disk_before, disk,
                   fig_out>>

DashRaise ==
    /\ plot_pc = "start"
    /\ builder = "build_dashboard"
    /\ \A i \in DOMAIN pages_dict : pages_dict[i] \in KnownPages
    /\ save_fig
    /\ fig_name = None
    /\ plot_pc' = "raised_name"
    /\ UNCHANGED <<fitVars, natVars, wslVars, uidVars, renVars, splVars, remVars,
                   builder, pages_dict, save_fig, fig_name, disk_before, disk,
                   fig_out>>

DashReturn ==
    /\ plot_pc = "start"
    /\ builder = "build_dashboard"
    /\ \A i \in DOMAIN pages_dict : pages_dict[i] \in KnownPages
    /\ ~(save_fig /\ fig_name = None)
    /\ disk' = IF save_fig THEN SaveDashboard(disk, fig_name) ELSE disk
    /\ fig_out' = builder
    /\ plot_pc' = "done"
    /\ UNCHANGED <<fitVars, natVars, wslVars, uidVars, renVars, splVars, remVars,
                   builder, pages_dict, save_fig, fig_name, disk_before>>

FigNames == {None, "", "attendance", "dashboard"}

NoDisk == [dirs |-> {}, files |-> {}]

\* the reports tree before the call: nothing, the bare directory, or the
\* output of earlier saves
Disks ==
    { NoDisk,
      [dirs |-> {REPORTS_OUT}, files |-> {}],
      save_figure(NoDisk, "attendance"),
      SaveDashboard(save_figure(NoDisk, "attendance"), "dashboard") }

PageLists ==
    { <<>>, <<"Attendance">>, <<"Points", "Goals", "Nationality">>,
      <<"Attendance", "Forecast">> }

PlotIdle ==
    /\ builder = None
    /\ pages_dict = <<>>
    /\ save_fig = FALSE
    /\ fig_name = None
    /\ disk_before = NoDisk
    /\ disk = NoDisk
    /\ fig_out = None
    /\ plot_pc = "idle"

HelperIdle == RenIdle /\ SplIdle /\ RemIdle /\ PlotIdle

-----------------------------------------------------------------------------
(* The forecast model's specification.                                     *)

FitStart ==
    /\ pc = "start"
    /\ features = <<>>
    /\ train_df = <<>>
    /\ test_df = <<>>
    /\ model = [intercept |-> NaNQ, coef |-> NaNQ]
    /\ ci = 0
    /\ future_rows = <<>>
    /\ future_df = NoTable

Init ==
    /\ model_df \in Tables
    /\ feature_cols \in FeatureLists
    /\ split_year \in SplitYears
    /\ forecast_years \in 0..MaxForecast
    /\ FitStart
    /\ HelperIdle
    /\ NatIdle
    /\ GrpIdle
    /\ WslIdle
    /\ UidIdle

Next ==
    \/ Split
    \/ FitRaise
    \/ Fit
    \/ NoForecast
    \/ ForecastRaise
    \/ ForecastBegin
    \/ ClubRaise
    \/ ClubStep
    \/ ForecastEnd
    \/ Return

Spec == Init /\ [][Next]_vars

\* the same call on the tables of collapsed attendance
InitDecline ==
    /\ model_df \in DeclineTables
    /\ feature_cols \in FeatureLists
    /\ split_year \in SplitYears
    /\ forecast_years \in 0..MaxForecast
    /\ FitStart
    /\ HelperIdle
    /\ NatIdle
    /\ GrpIdle
    /\ WslIdle
    /\ UidIdle

SpecDecline == InitDecline /\ [][Next]_vars

-----------------------------------------------------------------------------
(* The same call over every short feature list, on three-row tables.       *)

MaxFeatures == 3

FeatureNames == {"Season", "Points", "Capacity"}

AllFeatureLists == UNION { [1..n -> FeatureNames] : n \in 0..MaxFeatures }

FeatTables ==
    { t \in Tables :
        /\ Len(t) = 3
        /\ t[1]["Season"] = 2021
        /\ t[1]["Club_A"] = 1
        /\ \A i \in DOMAIN t : t[i]["Capacity"] # NaN }

InitFeat ==
    /\ model_df \in FeatTables
    /\ feature_cols \in AllFeatureLists
    /\ split_year \in SplitYears
    /\ forecast_years \in 0..MaxForecast
    /\ FitStart
    /\ HelperIdle
    /\ NatIdle
    /\ GrpIdle
    /\ WslIdle
    /\ UidIdle

SpecFeat == InitFeat /\ [][Next]_vars

-----------------------------------------------------------------------------
(* The nationality cleaner and nationality_group on their own.             *)

FitIdle ==
    /\ model_df = <<>>
    /\ feature_cols = <<>>
    /\ split_year = 2022
    /\ forecast_years = 0
    /\ pc = "idle"
    /\ features = <<>>
    /\ train_df = <<>>
    /\ test_df = <<>>
    /\ model = [intercept |-> NaNQ, coef |-> NaNQ]
    /\ ci = 0
    /\ future_rows = <<>>
    /\ future_df = NoTable

NatFiles ==
    { [kind |-> IF t.present THEN "csv" ELSE "missing", use |-> "nationality",
       season |-> NoSeasonTable, nat |-> t] : t \in RawNatTables }

InitNat ==
    /\ FitIdle
    /\ HelperIdle
    /\ GrpIdle
    /\ UidIdle
    /\ file \in NatFiles
    /\ load_pc = "start"
    /\ wsl_in = NoSeasonTable
    /\ wsl_years = <<0, 0>>
    /\ wsl_out = NoSeasonTable
    /\ wsl_pc = "idle"
    /\ nat_in = NoTable
    /\ nat_years \in NatSeasons
    /\ nat_out = NoTable
    /\ nat_pc = "idle"

NextNat == Load \/ NatSkip \/ NatRaise \/ NatClean

SpecNat == InitNat /\ [][NextNat]_vars

InitGroup ==
    /\ FitIdle
    /\ HelperIdle
    /\ NatIdle
    /\ WslIdle
    /\ UidIdle
    /\ grp_row \in [Nationality : NationalityValues, euro_flag : FlagValues]
    /\ grp_out = "none"
    /\ grp_pc = "start"

NextGroup == Classify

SpecGroup == InitGroup /\ [][NextGroup]_vars

-----------------------------------------------------------------------------
(* Loading a file and cleaning what was loaded, for either cleaner.        *)

InitSeason ==
    /\ FitIdle
    /\ HelperIdle
    /\ GrpIdle
    /\ UidIdle
    /\ file \in Files
    /\ load_pc = "start"
    /\ wsl_in = NoSeasonTable
    /\ wsl_years \in WslSeasons
    /\ wsl_out = NoSeasonTable
    /\ wsl_pc = "idle"
    /\ nat_in = NoTable
    /\ nat_years = <<2020, 2021>>
    /\ nat_out = NoTable
    /\ nat_pc = "idle"

NextSeason ==
    \/ Load
    \/ LoadRaise
    \/ WslSkip
    \/ WslRaise
    \/ WslClean
    \/ NatSkip
    \/ NatRaise
    \/ NatClean

SpecSeason == InitSeason /\ [][NextSeason]_vars

-----------------------------------------------------------------------------
(* create_unique_id on its own.                                            *)

InitUid ==
    /\ FitIdle
    /\ HelperIdle
    /\ NatIdle
    /\ GrpIdle
    /\ WslIdle
    /\ uid_in \in UidTables
    /\ uid_before = uid_in
    /\ uid_cols \in UidColumnLists
    /\ uid_new \in UidNewColumns
    /\ uid_out = <<>>
    /\ uid_pc = "start"

NextUid == UidRaise \/ UidApply

SpecUid == InitUid /\ [][NextUid]_vars

-----------------------------------------------------------------------------
(* Renaming with a mapping and then with its inverse.                      *)

InitRename ==
    /\ FitIdle
    /\ NatIdle
    /\ GrpIdle
    /\ WslIdle
    /\ UidIdle
    /\ SplIdle
    /\ RemIdle
    /\ PlotIdle
    /\ ren_in \in RenTables
    /\ ren_map \in InjectiveMaps
    /\ ren_out = <<>>
    /\ ren_pc = "start"

NextRename == Rename \/ RenameBack

SpecRename == InitRename /\ [][NextRename]_vars

-----------------------------------------------------------------------------
(* split_column and remove_string_parts, each on its own.                  *)

OthersIdle ==
    /\ FitIdle
    /\ NatIdle
    /\ GrpIdle
    /\ WslIdle
    /\ UidIdle

InitSplit ==
    /\ OthersIdle
    /\ RenIdle
    /\ RemIdle
    /\ PlotIdle
    /\ spl_in \in SplitTables
    /\ spl_before = spl_in
    /\ spl_new \in SplitNewColumns
    /\ spl_out = <<>>
    /\ spl_pc = "start"

NextSplit == SplitApply

SpecSplit == InitSplit /\ [][NextSplit]_vars

InitRemove ==
    /\ OthersIdle
    /\ RenIdle
    /\ SplIdle
    /\ PlotIdle
    /\ rem_in \in RemoveTables
    /\ rem_before = rem_in
    /\ rem_sub \in Substrings
    /\ rem_out = <<>>
    /\ rem_pc = "start"

NextRemove == RemoveApply

SpecRemove == InitRemove /\ [][NextRemove]_vars

-----------------------------------------------------------------------------
(* One call of a chart builder or of build_dashboard.                      *)

InitPlot ==
    /\ OthersIdle
    /\ RenIdle
    /\ SplIdle
    /\ RemIdle
    /\ builder \in ChartBuilders \cup {"build_dashboard"}
    /\ pages_dict \in (IF builder = "build_dashboard" THEN PageLists ELSE {<<>>})
    /\ save_fig \in BOOLEAN
    /\ fig_name \in FigNames
    /\ disk \in Disks
    /\ disk_before = disk
    /\ fig_out = None
    /\ plot_pc = "start"

NextPlot ==
    \/ ChartRaise
    \/ ChartReturn
    \/ DashPageRaise
    \/ DashRaise
    \/ DashReturn

SpecPlot == InitPlot /\ [][NextPlot]_vars

-----------------------------------------------------------------------------
(* Vocabulary of the claims about fit_wsl_linear_model.                    *)

\* the columns of the input table whose cells the datatype enforcement keeps
InputCols == {"index", "Season", "Club_A", "Club_B", "Attendance", "Capacity", "Points"}

\* a row cut back to those columns
Orig(row) == [k \in InputCols |-> row[k]]

Occurrences(df, r) == Cardinality({j \in DOMAIN df : Orig(df[j]) = Orig(r)})

OrigRows(df) == {Orig(df[i]) : i \in DOMAIN df}

IndexAscending(df) ==
    \A j, k \in DOMAIN df : j < k => df[j]["index"] < df[k]["index"]

\* the historical rows of a club: the input rows whose dummy is 1
History(club) ==
    {model_df[i] : i \in {j \in DOMAIN model_df : model_df[j][ClubColOf[club]] = 1}}

\* the k-th row of a club's history in ascending Season order
HistoryAt(club, k) ==
    CHOOSE r \in History(club) :
        Cardinality({x \in History(club) : x["Season"] <= r["Season"]}) = k

LatestRow(club) == HistoryAt(club, Cardinality(History(club)))

\* the period-over-period growth rates of the target along the history
GrowthRates(club) ==
    [k \in 1..(Cardinality(History(club)) - 1) |->
        Q(HistoryAt(club, k + 1)[target_col] - HistoryAt(club, k)[target_col],
          HistoryAt(club, k)[target_col])]

Below(g, x) == Cardinality({i \in DOMAIN g : QLess(g[i], x)})
Above(g, x) == Cardinality({i \in DOMAIN g : QLess(x, g[i])})

\* the median of a non-empty list of rationals, by rank
MedianOf(g) ==
    LET n == Len(g)
    IN  IF n % 2 = 1
        THEN CHOOSE x \in Range(g) :
                Below(g, x) <= (n - 1) \div 2 /\ Above(g, x) <= (n - 1) \div 2
        ELSE LET lo == CHOOSE x \in Range(g) :
                          Below(g, x) <= n \div 2 - 1 /\ Above(g, x) <= n \div 2
                 hi == CHOOSE x \in Range(g) :
                          Below(g, x) <= n \div 2 /\ Above(g, x) <= n \div 2 - 1
             IN  QMul(QAdd(lo, hi), Q(1, 2))

\* last * (1 + m)^k
Compounded(club, k) ==
    QMul(QInt(LatestRow(club)[target_col]),
         QPow(QAdd(QInt(1), MedianOf(GrowthRates(club))), k))

\* the clubs whose iteration of the loop at line 70 has run
DoneClubs ==
    IF pc \in {"clubs", "metrics", "done"} /\ forecast_years > 0
    THEN {clubs[j] : j \in {i \in DOMAIN clubs : i < ci}}
    ELSE {}

FutureRowsOf(rows, club, year) ==
    {j \in DOMAIN rows : rows[j]["Club"] = club /\ rows[j]["Season"] = year}

Returned == pc = "done"

-----------------------------------------------------------------------------
(* C1: the train/test split is a strict partition of the rows that have a  *)
(* Season: such a row is in train_df exactly once iff Season < split_year  *)
(* and in test_df exactly once iff Season >= split_year, never in both;    *)
(* the two tables hold input rows only, in the input's order.              *)
C1_SplitIsPartition ==
    pc # "start" =>
        /\ \A i \in DOMAIN model_df :
              LET r == model_df[i]
              IN  r["Season"] # NaN =>
                    /\ Occurrences(train_df, r)
                          = (IF r["Season"] < split_year THEN 1 ELSE 0)
                    /\ Occurrences(test_df, r)
                          = (IF r["Season"] >= split_year THEN 1 ELSE 0)
        /\ \A j \in DOMAIN train_df : Orig(train_df[j]) \in OrigRows(model_df)
        /\ \A j \in DOMAIN test_df : Orig(test_df[j]) \in OrigRows(model_df)
        /\ IndexAscending(train_df)
        /\ IndexAscending(test_df)

C1_Witness ==
    /\ Returned
    /\ Len(train_df) >= 1
    /\ Len(test_df) >= 1
    /\ \E i \in DOMAIN model_df : model_df[i]["Season"] = NaN
    /\ \E i \in DOMAIN model_df : model_df[i]["Season"] = split_year

-----------------------------------------------------------------------------
(* The worked example of the specification: one club with attendances      *)
(* 30000, 33000, 36000 in three consecutive seasons, forecast two years.    *)

ExampleTable ==
    [i \in 1..3 |->
        [k \in InputCols |->
            CASE k = "index" -> i - 1
              [] k = "Season" -> 2020 + i
              [] k = "Attendance" -> 27000 + 3000 * i
              [] k = "Capacity" -> 40000
              [] k = "Points" -> 30
              [] k = "Club_A" -> 1
              [] OTHER -> 0]]

ExampleForecast == ClubFutureRows(ExampleTable, "A", <<2024, 2025>>, <<"Points">>)

ExampleHolds ==
    LET m == median_growth(ClubHistory(ExampleTable, "A"))
        y1 == ExampleForecast[1]["Predicted_Attendance"]
        y2 == ExampleForecast[2]["Predicted_Attendance"]
    IN  /\ m = Q(21, 220)
        /\ QLess(Q(954, 10000), m) /\ QLess(m, Q(956, 10000))
        /\ y1 = Q(433800, 11)
        /\ QLess(QInt(39436), y1) /\ QLess(y1, QInt(39438))
        /\ y2 = QMul(y1, QAdd(QInt(1), m))

(* C2: for a club with at least 2 historical rows, the future row of the   *)
(* k-th forecast year carries Predicted_Attendance = last * (1 + m)^k      *)
(* before rounding, m the median growth rate along the history in Season   *)
(* order and last the target of the latest season; the worked example      *)
(* gives m = 21/220 and a first forecast of 433800/11, about 39436.        *)
C2_MedianGrowthCompounds ==
    /\ pc = "start" => ExampleHolds
    /\ \A club \in DoneClubs :
          Cardinality(History(club)) >= 2 =>
              \A k \in 1..forecast_years :
                 /\ FutureRowsOf(future_rows, club, last_year + k) # {}
                 /\ \A j \in FutureRowsOf(future_rows, club, last_year + k) :
                       future_rows[j]["Predicted_Attendance"] = Compounded(club, k)

C2_Witness ==
    /\ Returned
    /\ forecast_years >= 2
    /\ \E club \in DoneClubs :
          /\ Cardinality(History(club)) >= 2
          /\ GrowthRates(club)[1] # QInt(0)
          /\ HistoryAt(club, 1)["index"] > HistoryAt(club, 2)["index"]
          /\ FutureRowsOf(future_rows, club, last_year + 2) # {}

(* C3: a club with exactly one historical row gets future rows whose       *)
(* Predicted_Attendance and target are both missing, in the rows the loop  *)
(* builds and in the returned future table.                                *)
C3_SingleRowClubNotForecast ==
    \A club \in DoneClubs :
        Cardinality(History(club)) = 1 =>
            /\ \A j \in DOMAIN future_rows :
                  future_rows[j]["Club"] = club =>
                      /\ IsNaNQ(future_rows[j]["Predicted_Attendance"])
                      /\ future_rows[j][target_col] = NaN
            /\ Returned =>
                  \A j \in DOMAIN future_df.rows :
                      future_df.rows[j]["Club"] = club =>
                          /\ IsNaNQ(future_df.rows[j]["Predicted_Attendance"])
                          /\ future_df.rows[j][target_col] = NaN

C3_Witness ==
    /\ Returned
    /\ \E club \in DoneClubs :
          /\ Cardinality(History(club)) = 1
          /\ Cardinality({j \in DOMAIN future_df.rows :
                            future_df.rows[j]["Club"] = club}) = forecast_years
          /\ forecast_years >= 2

-----------------------------------------------------------------------------
(* C4: the returned future rows of a club with fewer than 2 historical     *)
(* rows have the club's own dummy at 1 and every other dummy at 0,         *)
(* whatever the feature list.                                              *)
C4_SparseDummiesSet ==
    Returned =>
        \A club \in DoneClubs :
            Cardinality(History(club)) < 2 =>
                \A j \in DOMAIN future_df.rows :
                    future_df.rows[j]["Club"] = club =>
                        \A c \in Range(ClubCols) :
                            future_df.rows[j][c]
                                = (IF c = ClubColOf[club] THEN 1 ELSE 0)

(* C5: a club with fewer than 2 historical rows never makes the club loop  *)
(* raise, and each of its returned future rows carries the club's last     *)
(* known Capacity, or a missing value when the club has no row.            *)
C5_SparseCapacityCarried ==
    /\ pc = "raised" => ci = 0
    /\ Returned =>
          \A club \in DoneClubs :
              Cardinality(History(club)) < 2 =>
                  \A k \in 1..forecast_years :
                     /\ FutureRowsOf(future_df.rows, club, last_year + k) # {}
                     /\ \A j \in FutureRowsOf(future_df.rows, club, last_year + k) :
                           future_df.rows[j]["Capacity"]
                               = (IF History(club) = {} THEN NaN
                                  ELSE LatestRow(club)["Capacity"])

-----------------------------------------------------------------------------
\* what C6 says of one future row of a club with a history
CarriedForward(row, club) ==
    /\ \A f \in Range(features) \ Range(ClubCols) : row[f] = LatestRow(club)[f]
    /\ row["Capacity"] = LatestRow(club)["Capacity"]
    /\ \A c \in Range(ClubCols) : row[c] = (IF c = ClubColOf[club] THEN 1 ELSE 0)
    /\ row[target_col] = NaN

SameButForecast(r1, r2) ==
    /\ DOMAIN r1 = DOMAIN r2
    /\ \A k \in DOMAIN r1 \ {"Season", "Predicted_Attendance"} : r1[k] = r2[k]

CarriedIn(rows) ==
    \A club \in DoneClubs :
        Cardinality(History(club)) >= 2 =>
            \A j \in DOMAIN rows :
                rows[j]["Club"] = club =>
                    /\ CarriedForward(rows[j], club)
                    /\ \A i \in DOMAIN rows :
                          rows[i]["Club"] = club => SameButForecast(rows[i], rows[j])

(* C6: every future row of a club with at least 2 historical rows holds    *)
(* the non-dummy features and Capacity of the club's latest-season row,    *)
(* the club's own dummy at 1 and the others at 0, and a missing target;    *)
(* the rows of one club differ in Season and Predicted_Attendance only.    *)
C6_FeaturesCarriedForward ==
    /\ CarriedIn(future_rows)
    /\ Returned => CarriedIn(future_df.rows)

C6_Witness ==
    /\ Returned
    /\ forecast_years >= 2
    /\ "Capacity" \in Range(features)
    /\ \E c \in Range(ClubCols) : c \in Range(features)
    /\ \E club \in DoneClubs :
          /\ Cardinality(History(club)) >= 2
          /\ HistoryAt(club, 1)["index"] > LatestRow(club)["index"]
          /\ HistoryAt(club, 1)["Capacity"] # LatestRow(club)["Capacity"]
          /\ \E j \in DOMAIN future_df.rows : future_df.rows[j]["Club"] = club

-----------------------------------------------------------------------------
(* C7: a returned future table has exactly one row for every Club_ column  *)
(* and every k in 1..N, with Season = L + k, L the largest input Season;   *)
(* so it has (number of Club_ columns) * N rows, each club's rows in       *)
(* ascending Season order and none with Season <= L.                       *)
C7_OneRowPerClubYear ==
    (Returned /\ forecast_years > 0) =>
        LET rows == future_df.rows
            L == Max({model_df[i]["Season"] : i \in DOMAIN model_df})
        IN  /\ future_df.present
            /\ \A c \in Range(ClubCols) : \A k \in 1..forecast_years :
                  Cardinality(FutureRowsOf(rows, ClubName[c], L + k)) = 1
            /\ Len(rows) = Len(ClubCols) * forecast_years
            /\ \A i, j \in DOMAIN rows :
                  (i < j /\ rows[i]["Club"] = rows[j]["Club"])
                      => rows[i]["Season"] < rows[j]["Season"]
            /\ \A j \in DOMAIN rows : rows[j]["Season"] > L

C7_Witness ==
    /\ Returned
    /\ forecast_years >= 2
    /\ Len(future_df.rows) = 2 * forecast_years
    /\ \E club \in DoneClubs : Cardinality(History(club)) >= 2
    /\ \E club \in DoneClubs : Cardinality(History(club)) = 1

-----------------------------------------------------------------------------
\* the position in fc of its j-th entry other than 'Season'
NthKept(fc, j) ==
    CHOOSE p \in DOMAIN fc :
        /\ fc[p] # "Season"
        /\ Cardinality({q \in 1..p : fc[q] # "Season"}) = j

(* C8: the resolved feature list never holds 'Season'; it is the caller's  *)
(* list without its 'Season' entries, in the caller's order; resolving it  *)
(* again gives the same list.                                              *)
C8_SeasonNeverAFeature ==
    pc # "start" =>
        /\ "Season" \notin Range(features)
        /\ Len(features)
              = Cardinality({i \in DOMAIN feature_cols : feature_cols[i] # "Season"})
        /\ \A j \in DOMAIN features : features[j] = feature_cols[NthKept(feature_cols, j)]
        /\ ResolveFeatures(features) = features

C8_Witness ==
    /\ Returned
    /\ Cardinality({i \in DOMAIN feature_cols : feature_cols[i] = "Season"}) >= 2
    /\ Len(features) >= 1
    /\ feature_cols[1] = "Season"

-----------------------------------------------------------------------------
GroupLabels == {"English", "European (excl. Eng)", "Non-European"}

(* C9: nationality_group returns exactly one of the three labels for every *)
(* row: 'English' iff Nationality is 'England' whatever the flag;          *)
(* otherwise 'European (excl. Eng)' iff euro_flag is 1; otherwise          *)
(* 'Non-European'.                                                         *)
C9_GroupTotalExclusive ==
    grp_pc = "done" =>
        LET english == grp_row["Nationality"] = <<"England">>
            flagged == grp_row["euro_flag"] = 1
        IN  /\ grp_out \in GroupLabels
            /\ grp_out = "English" <=> english
            /\ grp_out = "European (excl. Eng)" <=> (~english /\ flagged)
            /\ grp_out = "Non-European" <=> (~english /\ ~flagged)

C9_Witness ==
    /\ grp_pc = "done"
    /\ grp_row["Nationality"] = <<"England">>
    /\ grp_row["euro_flag"] = 1
    /\ grp_out = "English"

-----------------------------------------------------------------------------
NatCleaned == nat_pc = "done" /\ nat_out.present /\ nat_out.rows # <<>>

(* C10: in the table process_nationality_data returns, euro_flag is 0 or 1 *)
(* in every row, and it is 1 exactly when the row's cleaned country token  *)
(* is an entry of the European-country allow-list; two rows with the same  *)
(* token have the same flag.                                               *)
C10_EuroFlagIsMembership ==
    NatCleaned =>
        /\ \A i \in DOMAIN nat_out.rows :
              LET row == nat_out.rows[i]
              IN  /\ row["euro_flag"] \in {0, 1}
                  /\ row["euro_flag"] = 1
                        <=> \E e \in DOMAIN EURO_COUNTRIES :
                               EURO_COUNTRIES[e] = row["Nationality"]
        /\ \A i, j \in DOMAIN nat_out.rows :
              nat_out.rows[i]["Nationality"] = nat_out.rows[j]["Nationality"]
                  => nat_out.rows[i]["euro_flag"] = nat_out.rows[j]["euro_flag"]

C10_Witness ==
    /\ NatCleaned
    /\ \E i \in DOMAIN nat_out.rows :
          /\ nat_out.rows[i]["euro_flag"] = 1
          /\ nat_out.rows[i]["Nationality"] = <<"England">>
    /\ \E i \in DOMAIN nat_out.rows :
          /\ nat_out.rows[i]["euro_flag"] = 0
          /\ nat_out.rows[i]["Nationality"] = <<"United", "_", "States">>

-----------------------------------------------------------------------------
(* Vocabulary of the claims about the two cleaners.                        *)

\* the rows of the nationality file, as they were before the cleaner ran
NatRaw == file.nat.rows

HasSpace(t) == \E i \in DOMAIN t : t[i] = " "

RECURSIVE TokenRemoved(_)
\* a text without its leading space-delimited token and the space after it
TokenRemoved(t) ==
    IF t = <<>> THEN <<>>
    ELSE IF Head(t) = " " THEN Tail(t)
    ELSE TokenRemoved(Tail(t))

Underscored(t) == [i \in DOMAIN t |-> IF t[i] = " " THEN "_" ELSE t[i]]

(* C11 as stated: for every row given to process_nationality_data, the     *)
(* resulting Nationality is the raw nation text with its single leading    *)
(* space-delimited token removed and every remaining space replaced by     *)
(* '_'.  A raw text that holds no space refutes it: its Nationality is     *)
(* missing, not a text.                                                    *)
C11_EveryRowTokenRemoved ==
    NatCleaned =>
        \A i \in DOMAIN nat_out.rows :
            NatRaw[i]["Nation"] # NaText =>
                nat_out.rows[i]["Nationality"] = Underscored(TokenRemoved(NatRaw[i]["Nation"]))

(* C11, amended: for every row whose raw nation text holds a space, the    *)
(* resulting Nationality is the raw text with its single leading           *)
(* space-delimited token removed and every remaining space replaced by     *)
(* '_', only the first token being removed however many spaces follow; a   *)
(* raw nation with no space, or a missing one, gives a missing             *)
(* Nationality.                                                            *)
C11_LeadingTokenRemoved ==
    NatCleaned =>
        \A i \in DOMAIN nat_out.rows :
            LET raw == NatRaw[i]["Nation"]
            IN  IF raw # NaText /\ HasSpace(raw)
                THEN nat_out.rows[i]["Nationality"] = Underscored(TokenRemoved(raw))
                ELSE nat_out.rows[i]["Nationality"] = NaText

C11_Witness ==
    /\ NatCleaned
    /\ \E i \in DOMAIN nat_out.rows :
          /\ NatRaw[i]["Nation"] = <<"ie", " ", "Republic", " ", "of", " ", "Ireland">>
          /\ nat_out.rows[i]["Nationality"] = <<"Republic", "_", "of", "_", "Ireland">>
    /\ \E i \in DOMAIN nat_out.rows :
          /\ NatRaw[i]["Nation"] = <<"eng", " ", "England">>
          /\ nat_out.rows[i]["Nationality"] = <<"England">>

\* the Season_Rank process_nationality_data gives a row of a given rank
\* when it cleans a one-row file for the given season
SeasonRankOf(years, rk) ==
    CleanNationality(<<RawNatRow(1, rk, <<"eng", " ", "England">>)>>, years)[1]["Season_Rank"]

(* C12: every row returned by process_nationality_data has season =        *)
(* '{start_year}_{end_year}' and Season_Rank = season, '_', the text of    *)
(* its rank, season first; rows of pairwise distinct ranks have pairwise   *)
(* distinct Season_Rank, and no row cleaned for another season has the     *)
(* Season_Rank of a row of this one.                                       *)
C12_SeasonRankIsKey ==
    NatCleaned =>
        /\ \A i \in DOMAIN nat_out.rows :
              LET row == nat_out.rows[i]
              IN  /\ row["season"] = <<ToString(nat_years[1]), "_", ToString(nat_years[2])>>
                  /\ row["Season_Rank"] = row["season"] \o <<"_">> \o NatRaw[i]["Rk"]
                  /\ row["Rank"] = NatRaw[i]["Rk"]
                  /\ \A years \in NatSeasons \ {nat_years} : \A rk \in 1..2 :
                        SeasonRankOf(years, rk) # row["Season_Rank"]
        /\ \A i, j \in DOMAIN nat_out.rows :
              i # j /\ NatRaw[i]["Rk"] # NatRaw[j]["Rk"]
                  => nat_out.rows[i]["Season_Rank"] # nat_out.rows[j]["Season_Rank"]

C12_Witness ==
    /\ NatCleaned
    /\ nat_years = <<2020, 2021>>
    /\ Len(nat_out.rows) = 2
    /\ nat_out.rows[1]["Season_Rank"] = <<"2020", "_", "2021", "_", "2">>
    /\ nat_out.rows[2]["Season_Rank"] = <<"2020", "_", "2021", "_", "1">>
    /\ SeasonRankOf(<<2021, 2022>>, 1) = <<"2021", "_", "2022", "_", "1">>

(* C13: load_csv_data on a path that does not exist returns an absent      *)
(* table and does not raise; process_wsl_data and                          *)
(* process_nationality_data given an absent table or one with no row       *)
(* return exactly that table, with no column and no row added, and do not  *)
(* raise; so loading a missing file and cleaning it ends with an absent    *)
(* table and no error.                                                     *)
C13_MissingInputPropagated ==
    /\ file.kind = "missing" => load_pc # "raised"
    /\ file.kind = "missing" /\ load_pc = "done" =>
          IF file.use = "season" THEN ~wsl_in.present ELSE ~nat_in.present
    /\ file.use = "season" /\ load_pc = "done"
            /\ (file.kind = "missing" \/ file.season.rows = <<>>) =>
          /\ wsl_pc \in {"start", "done"}
          /\ wsl_in.rows = <<>>
          /\ wsl_in.cols = file.season.cols
          /\ wsl_in.present = (file.kind # "missing")
          /\ wsl_pc = "done" => wsl_out = wsl_in
    /\ file.use = "nationality" /\ load_pc = "done"
            /\ (file.kind = "missing" \/ file.nat.rows = <<>>) =>
          /\ nat_pc \in {"start", "done"}
          /\ nat_in.rows = <<>>
          /\ nat_in.present = (file.kind # "missing")
          /\ nat_pc = "done" => nat_out = nat_in

C13_Witness ==
    /\ file.kind = "missing"
    /\ file.use = "season"
    /\ load_pc = "done"
    /\ wsl_pc = "done"
    /\ ~wsl_out.present
    /\ wsl_out = wsl_in

\* the rows of the season file, as they were before the cleaner ran
SeasonRaw == file.season.rows

SeasonCleaned == wsl_pc = "done" /\ wsl_out.present /\ wsl_out.rows # <<>>

\* the club each raw club name of the model stands for, written with '_'
ExpectedClub(raw) ==
    CASE raw = <<"Club", " ", "Crest", " ", "Arsenal">> -> <<"Arsenal">>
      [] raw = <<"Arsenal">> -> <<"Arsenal">>
      [] raw = <<"Club", " ", "Crest", " ", "Manchester", " ", "City">> ->
            <<"Manchester", "_", "City">>
      [] raw = <<"West", " ", "Ham", " ", "United">> ->
            <<"West", "_", "Ham", "_", "United">>
      [] raw = <<"Club", " ", "Crest", " ", "Club", " ", "Crest", " ", "Chelsea">> ->
            <<"Chelsea">>

(* C14: in the table process_wsl_data returns for a non-empty raw season   *)
(* table, Club, season and unique_ID are non-null in every row; Club is    *)
(* the raw club name with every 'Club Crest ' removed and every space      *)
(* replaced by '_', season is '{start_year}_{end_year}', and unique_ID is  *)
(* Club, '_', season, so the id built before the rename matches the        *)
(* renamed Club column.                                                    *)
C14_ClubSeasonUniqueId ==
    SeasonCleaned =>
        \A i \in DOMAIN wsl_out.rows :
            LET row == wsl_out.rows[i]
                raw == SeasonRaw[i]["Squad"]
            IN  /\ {"Club", "season", "unique_ID"} \subseteq wsl_out.cols
                /\ "Squad" \notin wsl_out.cols
                /\ row["Club"] # NaText
                /\ row["season"] # NaText
                /\ row["unique_ID"] # NaText
                /\ raw # NaText => row["Club"] = ExpectedClub(raw)
                /\ row["season"] = <<ToString(wsl_years[1]), "_", ToString(wsl_years[2])>>
                /\ row["unique_ID"] = row["Club"] \o <<"_">> \o row["season"]

C14_Witness ==
    /\ SeasonCleaned
    /\ \E i \in DOMAIN wsl_out.rows :
          /\ SeasonRaw[i]["Squad"] = <<"Club", " ", "Crest", " ", "Manchester", " ", "City">>
          /\ wsl_out.rows[i]["Club"] = <<"Manchester", "_", "City">>
          /\ wsl_out.rows[i]["unique_ID"] =
                 <<"Manchester", "_", "City", "_", "2020", "_", "2021">>
    /\ \E i \in DOMAIN wsl_out.rows :
          /\ SeasonRaw[i]["Squad"] =
                 <<"Club", " ", "Crest", " ", "Club", " ", "Crest", " ", "Chelsea">>
          /\ wsl_out.rows[i]["Club"] = <<"Chelsea">>

(* C15 as stated: in the table process_wsl_data returns for a raw season   *)
(* table whose raw club names are pairwise distinct, the unique_ID values  *)
(* are pairwise distinct.  Two raw names of one club, 'Club Crest Arsenal' *)
(* and 'Arsenal', refute it.                                               *)
C15_DistinctRawNamesDistinctIds ==
    SeasonCleaned =>
        ((\A i, j \in DOMAIN SeasonRaw : i # j => SeasonRaw[i]["Squad"] # SeasonRaw[j]["Squad"])
            => \A i, j \in DOMAIN wsl_out.rows :
                  i # j => wsl_out.rows[i]["unique_ID"] # wsl_out.rows[j]["unique_ID"])

(* C15, amended: in the table process_wsl_data returns, two rows whose     *)
(* club names differ once 'Club Crest ' is removed and spaces are '_' have *)
(* different unique_ID values, and two rows with the same such name have   *)
(* the same unique_ID: unique_ID is a key of (cleaned club, season).       *)
C15_UniqueIdIsKeyOfCleanedClub ==
    SeasonCleaned =>
        \A i, j \in DOMAIN wsl_out.rows :
            SeasonRaw[i]["Squad"] # NaText /\ SeasonRaw[j]["Squad"] # NaText =>
                (ExpectedClub(SeasonRaw[i]["Squad"]) = ExpectedClub(SeasonRaw[j]["Squad"])
                    <=> wsl_out.rows[i]["unique_ID"] = wsl_out.rows[j]["unique_ID"])

C15_Witness ==
    /\ SeasonCleaned
    /\ Len(wsl_out.rows) = 2
    /\ SeasonRaw[1]["Squad"] = <<"Club", " ", "Crest", " ", "Arsenal">>
    /\ SeasonRaw[2]["Squad"] = <<"West", " ", "Ham", " ", "United">>
    /\ wsl_out.rows[1]["unique_ID"] = <<"Arsenal", "_", "2021", "_", "2022">>
    /\ wsl_out.rows[2]["unique_ID"] =
           <<"West", "_", "Ham", "_", "United", "_", "2021", "_", "2022">>

\* the goal count each top-scorer text of the model stands for
ExpectedGoals(raw) ==
    CASE raw = ScorerList[1] -> QInt(14)
      [] raw = ScorerList[2] -> QInt(12)
      [] raw = ScorerList[5] -> QInt(10)
      [] OTHER -> NaNQ

\* the scorer names each top-scorer text of the model stands for
ExpectedName(raw) ==
    CASE raw = ScorerList[1] -> <<"Vivianne", "_", "Miedema">>
      [] raw = ScorerList[2] -> <<"Sam", "_", "Kerr", ",", " ", "Beth", "_", "Mead">>
      [] raw = ScorerList[3] -> <<"Bethany", "_", "England">>
      [] raw = ScorerList[4] -> <<"Kerr", ",", " ", "Mead">>
      [] raw = ScorerList[5] -> <<"Ji", "_", "So", "-", "yun">>
      [] raw = ScorerList[6] -> <<"Kelly">>
      [] OTHER -> NaText

\* a season file that has the three columns process_wsl_data looks up
HasScorerColumn ==
    /\ file.use = "season"
    /\ file.kind = "csv"
    /\ {"Squad", "Attendance", "Top Team Scorer"} \subseteq file.season.cols

(* C16: when the raw season table has the 'Top Team Scorer' column,        *)
(* process_wsl_data does not raise and splits each value on the first      *)
(* ' - ' only: Top_Scorer_Name comes from the text before it and           *)
(* Top_Scorer_Goals is the number parsed from all the text after it,       *)
(* commas and surrounding spaces tolerated; a value with no ' - ' or with  *)
(* a goal part that does not parse gets a null Top_Scorer_Goals.           *)
C16_TopScorerSplit ==
    HasScorerColumn =>
        /\ wsl_pc # "raised"
        /\ SeasonCleaned =>
              \A i \in DOMAIN wsl_out.rows :
                  /\ wsl_out.rows[i]["Top_Scorer_Goals"]
                        = ExpectedGoals(SeasonRaw[i]["Top Team Scorer"])
                  /\ wsl_out.rows[i]["Top_Scorer_Name"]
                        = ExpectedName(SeasonRaw[i]["Top Team Scorer"])

(* C17: Top_Scorer_Name is the name part split on ',', every piece         *)
(* stripped of surrounding spaces and its inner spaces replaced by '_',    *)
(* the pieces joined again with ', ' in their order, so the number and     *)
(* order of co-leading scorers is kept and no piece holds a space; a null  *)
(* name stays null.                                                        *)
C17_ScorerNamesNormalised ==
    HasScorerColumn /\ SeasonCleaned =>
        \A i \in DOMAIN wsl_out.rows :
            LET raw == SeasonRaw[i]["Top Team Scorer"]
                name == wsl_out.rows[i]["Top_Scorer_Name"]
            IN  IF raw = NaText THEN name = NaText
                ELSE /\ name = ExpectedName(raw)
                     /\ name # <<>> => name[1] # " " /\ name[Len(name)] # " "
                     /\ \A k \in DOMAIN name :
                           /\ name[k] = " " => k > 1 /\ name[k - 1] = ","
                           /\ name[k] = "," => k < Len(name) /\ name[k + 1] = " "

C17_Witness ==
    /\ HasScorerColumn
    /\ SeasonCleaned
    /\ Len(wsl_out.rows) = 2
    /\ SeasonRaw[1]["Top Team Scorer"] = ScorerList[4]
    /\ wsl_out.rows[1]["Top_Scorer_Name"] = <<"Kerr", ",", " ", "Mead">>
    /\ wsl_out.rows[2]["Top_Scorer_Name"] = <<"Ji", "_", "So", "-", "yun">>

\* a season file without the top-scorer column
NoScorerColumn ==
    /\ file.use = "season"
    /\ file.kind = "csv"
    /\ {"Squad", "Attendance"} \subseteq file.season.cols
    /\ "Top Team Scorer" \notin file.season.cols

\* what process_wsl_data returns for the same rows with a top-scorer column
WithScorers(sc) ==
    CleanSeason([i \in DOMAIN SeasonRaw |-> Put(SeasonRaw[i], "Top Team Scorer", sc[i])],
                wsl_years)

(* C18: for a raw season table without the top-scorer column,              *)
(* process_wsl_data does not raise; the table it returns has               *)
(* Top_Scorer_Name and Top_Scorer_Goals, null in every row, and every      *)
(* other column is what the same table with a top-scorer column gives.     *)
C18_NoScorerColumnNullColumns ==
    NoScorerColumn =>
        /\ wsl_pc # "raised"
        /\ SeasonCleaned =>
              /\ {"Top_Scorer_Name", "Top_Scorer_Goals"} \subseteq wsl_out.cols
              /\ "Top_Scorer" \notin wsl_out.cols
              /\ \A i \in DOMAIN wsl_out.rows :
                    /\ wsl_out.rows[i]["Top_Scorer_Name"] = NaText
                    /\ wsl_out.rows[i]["Top_Scorer_Goals"] = NaNQ
                    /\ \A sc \in ScorerPatterns :
                          (\E j \in DOMAIN SeasonRaw : sc[j] # NaText) =>
                              \A k \in wsl_out.cols \ {"Top_Scorer_Name", "Top_Scorer_Goals"} :
                                  WithScorers(sc)[i][k] = wsl_out.rows[i][k]

C18_Witness ==
    /\ NoScorerColumn
    /\ SeasonCleaned
    /\ Len(wsl_out.rows) = 2
    /\ wsl_out.rows[1]["Top_Scorer_Name"] = NaText
    /\ wsl_out.rows[1]["Top_Scorer_Goals"] = NaNQ
    /\ wsl_out.rows[1]["Club"] = <<"Manchester", "_", "City">>
    /\ wsl_out.rows[1]["Attendance"] = QInt(1234)

\* the number each attendance text of the model stands for
ExpectedAttendance(raw) ==
    CASE raw = <<"1", ",", "2", "3", "4">> -> QInt(1234)
      [] raw = <<" ", "9", "0", " ">> -> QInt(90)
      [] raw = <<"1", "2", ",">> -> QInt(12)
      [] OTHER -> NaNQ

-----------------------------------------------------------------------------
(* Vocabulary of the claims about create_unique_id.                        *)

\* the text form of a cell: a missing value reads 'nan'
TextForm(v) == IF v = NaText THEN <<"nan">> ELSE v

RECURSIVE ExpectedId(_, _)
\* the text forms of the listed columns of a row, '_' between them
ExpectedId(row, columns) ==
    IF Len(columns) = 1 THEN TextForm(row[columns[1]])
    ELSE ExpectedId(row, SubSeq(columns, 1, Len(columns) - 1))
             \o <<"_">> \o TextForm(row[columns[Len(columns)]])

ArsenalRow == UidRow(1, <<"Arsenal">>, <<"2020", "_", "2021">>)

(* C20: create_unique_id sets new_column, in every row, to the text forms  *)
(* of the listed columns joined by '_' in the listed order: ['Squad',      *)
(* 'season'] gives 'Arsenal_2020_2021' and ['season', 'Squad'] gives       *)
(* '2020_2021_Arsenal'; it changes no other column and not the number of   *)
(* rows.                                                                   *)
C20_UniqueIdJoinsInOrder ==
    /\ create_unique_id(<<ArsenalRow>>, <<"Squad", "season">>, "unique_ID")[1]["unique_ID"]
          = <<"Arsenal", "_", "2020", "_", "2021">>
    /\ create_unique_id(<<ArsenalRow>>, <<"season", "Squad">>, "unique_ID")[1]["unique_ID"]
          = <<"2020", "_", "2021", "_", "Arsenal">>
    /\ uid_pc = "done" =>
          /\ Len(uid_out) = Len(uid_before)
          /\ uid_in = uid_out
          /\ \A i \in DOMAIN uid_out :
                /\ DOMAIN uid_out[i] = DOMAIN uid_before[i] \cup {uid_new}
                /\ uid_out[i][uid_new] = ExpectedId(uid_before[i], uid_cols)
                /\ \A k \in DOMAIN uid_before[i] \ {uid_new} :
                      uid_out[i][k] = uid_before[i][k]

C20_Witness ==
    /\ uid_pc = "done"
    /\ uid_cols = <<"season", "Squad">>
    /\ uid_new = "unique_ID"
    /\ Len(uid_out) = 2
    /\ uid_before[1] = ArsenalRow
    /\ uid_out[1]["unique_ID"] = <<"2020", "_", "2021", "_", "Arsenal">>
    /\ uid_out[1]["Squad"] = <<"Arsenal">>
    /\ uid_out[2]["unique_ID"] = <<"2021", "_", "2022", "_", "nan">>

\* the columns of the table create_unique_id was given
UidColumns == DOMAIN uid_before[1]

(* C21: create_unique_id given a listed column that the table does not    *)
(* have ends with a missing-column error and never returns; the table is  *)
(* left exactly as it was, new_column not added and no value changed; a   *)
(* table whose listed columns all exist does not raise.                   *)
C21_MissingColumnFailsFast ==
    uid_pc # "start" =>
        IF \E j \in DOMAIN uid_cols : uid_cols[j] \notin UidColumns
        THEN /\ uid_pc = "raised"
             /\ uid_out = <<>>
             /\ uid_in = uid_before
        ELSE uid_pc = "done"

C21_Witness ==
    /\ uid_pc = "raised"
    /\ uid_cols = <<"Points", "Squad", "season">>
    /\ UidColumns = {"Squad", "Points"}
    /\ Len(uid_in) = 2
    /\ uid_in = uid_before

-----------------------------------------------------------------------------
(* Vocabulary of the claims about the helpers of data_utils.py.            *)

\* the column labels of a table, in order
Labels(df) == [i \in DOMAIN df |-> df[i].name]

\* a column the mapping leaves alone carries a name the mapping gives out
UnmappedColumnIsNewName ==
    \E i \in DOMAIN ren_in :
        /\ ren_in[i].name \notin DOMAIN ren_map
        /\ \E k \in DOMAIN ren_map : ren_map[k] = ren_in[i].name

(* C22 as stated: for every table and every injective mapping, renaming    *)
(* with the mapping and then with its inverse gives exactly the original   *)
(* column names in the original order, also when a key of the mapping is   *)
(* not a column or a new name is the name of another column.  The mapping  *)
(* {A: B} on the columns A, B refutes it: the result is A, A.              *)
C22_RoundTripAnyInjective ==
    ren_pc = "back" => Labels(ren_out) = Labels(ren_in)

(* C22, amended: renaming with an injective mapping and then with its      *)
(* inverse gives the original column names in the original order, over     *)
(* the original data, exactly when no column that the mapping leaves       *)
(* alone carries one of the mapping's new names; keys that are not         *)
(* columns are ignored by both calls.                                      *)
C22_RoundTripWhenNoNameTaken ==
    ren_pc = "back" =>
        /\ Len(ren_out) = Len(ren_in)
        /\ \A i \in DOMAIN ren_out : ren_out[i].data = ren_in[i].data
        /\ Labels(ren_out) = Labels(ren_in) <=> ~UnmappedColumnIsNewName

C22_Witness ==
    /\ ren_pc = "back"
    /\ Labels(ren_in) = <<"A", "B", "C">>
    /\ DOMAIN ren_map = {"A", "B", "X"}
    /\ ren_map["A"] = "B"
    /\ ren_map["B"] = "X"
    /\ ren_map["X"] = "A"
    /\ Labels(ren_out) = <<"A", "B", "C">>

\* the values split_column wrote into the new columns of row i, in order
Written(i) == [j \in DOMAIN spl_new |-> spl_out[i][spl_new[j]]]

\* how many of them are not null
WrittenCount(i) == Cardinality({j \in DOMAIN spl_new : Written(i)[j] # NaText})

(* C23: split_column splits each value on the separator into at most       *)
(* len(new_columns) parts and writes part i into new_columns[i], so the    *)
(* parts written, joined by the separator, are the value; a row with       *)
(* fewer parts has null in the remaining new columns; 'A - 5' gives        *)
(* name = 'A' and goals = '5', a value without the separator a null        *)
(* goals; the source column and the other columns are left unchanged.      *)
C23_SplitIntoNewColumns ==
    spl_pc = "done" =>
        \A i \in DOMAIN spl_out :
            LET text == TextForm(spl_before[i]["scorer"])
                k == WrittenCount(i)
            IN  /\ k >= 1
                /\ \A j \in DOMAIN spl_new : Written(i)[j] # NaText <=> j <= k
                /\ JoinTexts(SubSeq(Written(i), 1, k), DASH) = text
                /\ spl_out[i]["scorer"] = spl_before[i]["scorer"]
                /\ spl_out[i]["Points"] = spl_before[i]["Points"]
                /\ text = <<"A", " ", "-", " ", "5">> /\ Len(spl_new) >= 2 =>
                      spl_out[i]["name"] = <<"A">> /\ spl_out[i]["goals"] = <<"5">>
                /\ text = <<"A">> /\ Len(spl_new) >= 2 => spl_out[i]["goals"] = NaText

\* a text holds the substring somewhere
Contains(t, sub) ==
    \E k \in 1..(Len(t) - Len(sub) + 1) : SubSeq(t, k, k + Len(sub) - 1) = sub

RECURSIVE ScanRemoved(_, _, _)
\* a text read once from position k on, every occurrence met being skipped
ScanRemoved(t, sub, k) ==
    IF k > Len(t) THEN <<>>
    ELSE IF k + Len(sub) - 1 <= Len(t) /\ SubSeq(t, k, k + Len(sub) - 1) = sub
         THEN ScanRemoved(t, sub, k + Len(sub))
    ELSE <<t[k]>> \o ScanRemoved(t, sub, k + 1)

(* C24 as stated: after remove_string_parts no value of the column         *)
(* contains the substring, and a value that did not contain it keeps its   *)
(* text.  'Club Club Crest Crest Everton' refutes the first half: removing *)
(* 'Club Crest ' once leaves 'Club Crest Everton'.                         *)
C24_NoValueContainsSubstring ==
    rem_pc = "done" =>
        \A i \in DOMAIN rem_out :
            /\ ~Contains(rem_out[i]["Squad"], rem_sub)
            /\ ~Contains(TextForm(rem_before[i]["Squad"]), rem_sub) =>
                  rem_out[i]["Squad"] = TextForm(rem_before[i]["Squad"])

(* C24, amended: remove_string_parts turns every value of the column to    *)
(* text and removes every occurrence of the substring that one reading of  *)
(* the text from left to right meets, the substring matched as plain text; *)
(* a value that did not contain it keeps its text, no error is raised when *)
(* no value contains it, and the other columns are unchanged.  A value may *)
(* still contain the substring where a removal joined its two sides.       *)
C24_OccurrencesRemovedInOnePass ==
    rem_pc = "done" =>
        /\ Len(rem_out) = Len(rem_before)
        /\ rem_in = rem_out
        /\ \A i \in DOMAIN rem_out :
              LET text == TextForm(rem_before[i]["Squad"])
              IN  /\ rem_out[i]["Squad"] = ScanRemoved(text, rem_sub, 1)
                  /\ ~Contains(text, rem_sub) => rem_out[i]["Squad"] = text
                  /\ rem_out[i]["Points"] = rem_before[i]["Points"]
                  /\ (rem_sub = CLUB_CREST /\ text = <<"Club", " ", "Club", " ", "Crest", " ",
                                                       "Crest", " ", "Everton">>)
                        => rem_out[i]["Squad"] = <<"Club", " ", "Crest", " ", "Everton">>

C24_Witness ==
    /\ rem_pc = "done"
    /\ rem_sub = CLUB_CREST
    /\ Len(rem_out) = 2
    /\ rem_before[1]["Squad"] =
           <<"Club", " ", "Crest", " ", "Club", " ", "Crest", " ", "Chelsea">>
    /\ rem_out[1]["Squad"] = <<"Chelsea">>
    /\ rem_before[2]["Squad"] = <<"Arsenal">>
    /\ rem_out[2]["Squad"] = <<"Arsenal">>


-----------------------------------------------------------------------------
(* Vocabulary of the claims about the datatype enforcement.                *)

\* the input row a row of train_df or test_df was copied from
InputRowOf(r) == CHOOSE m \in Range(model_df) : m["index"] = r["index"]

\* n is an integer nearest to the float q
NearestInt(n, q) == n \in Int /\ 2 * Abs(q.n - n * q.d) <= q.d

\* r is a multiple of 1/100 nearest to the float q
NearestCent(r, q) ==
    LET cents == r.n * (100 \div r.d)
        below == (q.n \div q.d) * 100 + ((q.n % q.d) * 100) \div q.d
        rest == ((q.n % q.d) * 100) % q.d
    IN  /\ 100 % r.d = 0
        /\ \/ cents = below /\ 2 * rest <= q.d
           \/ cents = below + 1 /\ 2 * rest >= q.d

CountOrNull(cell, before) ==
    IF IsNaNQ(before) THEN cell = NaN ELSE NearestInt(cell, before)

CentOrNull(cell, before) ==
    IF IsNaNQ(before) THEN IsNaNQ(cell) ELSE NearestCent(cell, before)

\* a returned train or test table against the rows it was split from
SplitEnforced(df, rows) ==
    /\ Len(df) = Len(rows)
    /\ \A j \in DOMAIN df :
          /\ Orig(df[j]) = Orig(rows[j])
          /\ \A c \in {"Capacity", "Points"} : df[j][c] \in Int
          /\ CountOrNull(df[j]["Matches"], InputRowOf(df[j])["Matches"])
          /\ CentOrNull(df[j]["Predicted_Attendance"],
                        LinearSum(model, df[j], features))

\* the returned future table against the dicts the club loop built
FutureEnforced ==
    /\ future_df.present
    /\ Len(future_df.rows) = Len(future_rows)
    /\ \A j \in DOMAIN future_rows :
          /\ DOMAIN future_df.rows[j] = DOMAIN future_rows[j]
          /\ \A c \in DOMAIN future_rows[j] \ {"Predicted_Attendance"} :
                future_df.rows[j][c] = future_rows[j][c]
          /\ future_df.rows[j]["Capacity"] \in Int
          /\ CentOrNull(future_df.rows[j]["Predicted_Attendance"],
                        future_rows[j]["Predicted_Attendance"])

(* C25: in the returned train, test and future tables every count-like     *)
(* column holds integers or nulls (a float count rounded to the nearest    *)
(* integer), Predicted_Attendance is rounded to 2 decimal places, every    *)
(* other cell and the number of rows are as before the step; with          *)
(* forecast_years = 0 the returned future table is absent.                 *)
C25_TypesEnforcedPerTable ==
    Returned =>
        /\ SplitEnforced(train_df, TrainRows(model_df, split_year))
        /\ SplitEnforced(test_df, TestRows(model_df, split_year))
        /\ IF forecast_years = 0 THEN future_df = NoTable ELSE FutureEnforced

C25_Witness ==
    /\ Returned
    /\ forecast_years > 0
    /\ \E j \in DOMAIN train_df :
          train_df[j]["Matches"] = 22 /\ InputRowOf(train_df[j])["Matches"] = Q(45, 2)
    /\ \E j \in DOMAIN test_df : test_df[j]["Matches"] = NaN
    /\ \E j \in DOMAIN train_df :
          train_df[j]["Predicted_Attendance"] # LinearSum(model, train_df[j], features)
    /\ \E j \in DOMAIN future_rows :
          /\ ~IsNaNQ(future_rows[j]["Predicted_Attendance"])
          /\ future_df.rows[j]["Predicted_Attendance"]
                # future_rows[j]["Predicted_Attendance"]


-----------------------------------------------------------------------------
(* Vocabulary of the claim about saving figures.                           *)

PlotCalled == plot_pc \notin {"idle", "start"}

\* the figure or template itself can be built
PagesKnown ==
    builder = "build_dashboard" =>
        \A i \in DOMAIN pages_dict : pages_dict[i] \in KnownPages

NothingWritten == disk = disk_before

(* C26: every chart builder, and build_dashboard over pages it knows,      *)
(* called with save_fig = True and fig_name = None raises the 'fig_name    *)
(* must be provided' error with no directory created, no file written and  *)
(* no figure returned; called with save_fig = False it raises nothing,     *)
(* writes nothing and returns its figure, whatever fig_name is.            *)
C26_SaveNeedsName ==
    (PlotCalled /\ PagesKnown) =>
        /\ (save_fig /\ fig_name = None) =>
              plot_pc = "raised_name" /\ NothingWritten /\ fig_out = None
        /\ ~save_fig =>
              plot_pc = "done" /\ NothingWritten /\ fig_out = builder

C26_Witness ==
    /\ plot_pc = "raised_name"
    /\ builder = "create_club_capacity_attendance_chart"
    /\ save_fig
    /\ fig_name = None
    /\ disk = NoDisk


-----------------------------------------------------------------------------
\* the country names written in the EURO_COUNTRIES literal of wsl_config.py,
\* 'Belgium' and 'Norway' each being one
NamedEuroCountries == Range(EURO_COUNTRIES) \cup {<<"Belgium">>, <<"Norway">>}

(* C27: in the table process_nationality_data returns, every row whose     *)
(* cleaned country token is a country named in EURO_COUNTRIES, Belgium and *)
(* Norway included, has euro_flag = 1 and, unless the token is England,    *)
(* group 'European (excl. Eng)'.                                           *)
C27_NamedCountriesAreEuropean ==
    NatCleaned =>
        \A i \in DOMAIN nat_out.rows :
            LET row == nat_out.rows[i]
            IN  row["Nationality"] \in NamedEuroCountries =>
                    /\ row["euro_flag"] = 1
                    /\ row["Nationality"] # <<"England">>
                          => row["group"] = "European (excl. Eng)"


-----------------------------------------------------------------------------
(* Vocabulary of the claim about the sign of the forecast.                 *)

Positive(q) == ~IsNaNQ(q) /\ q.n > 0

\* the club has at least 2 historical rows and every target is positive
PositiveHistory(club) ==
    /\ Cardinality(History(club)) >= 2
    /\ \A r \in History(club) : r[target_col] # NaN /\ r[target_col] > 0

FutureRowsFor(club) == {j \in DOMAIN future_df.rows : future_df.rows[j]["Club"] = club}

(* C28: for every club with at least 2 historical rows whose targets are   *)
(* all strictly positive, every Predicted_Attendance of the club in the    *)
(* returned future table is strictly positive, for every number of         *)
(* forecast years.                                                         *)
C28_PositiveHistoryPositiveForecast ==
    (Returned /\ future_df.present) =>
        \A c \in DOMAIN clubs :
            PositiveHistory(clubs[c]) =>
                \A j \in FutureRowsFor(clubs[c]) :
                    Positive(future_df.rows[j]["Predicted_Attendance"])

(* C28, amended: for such a club the compounded value of every forecast    *)
(* year is strictly positive as the club loop computes it, and the value   *)
(* in the returned future table, rounded to 2 decimals, is never negative  *)
(* and is 0 exactly when the compounded value is at most 1/200.            *)
C28_PositiveUntilRounded ==
    (Returned /\ future_df.present) =>
        \A c \in DOMAIN clubs :
            PositiveHistory(clubs[c]) =>
                \A j \in FutureRowsFor(clubs[c]) :
                    LET built == future_rows[j]["Predicted_Attendance"]
                        out == future_df.rows[j]["Predicted_Attendance"]
                    IN  /\ Positive(built)
                        /\ ~IsNaNQ(out) /\ out.n >= 0
                        /\ out.n = 0 <=> built.n <= built.d \div 200

C28_Witness ==
    /\ Returned
    /\ future_df.present
    /\ forecast_years >= 2
    /\ \E c \in DOMAIN clubs :
          /\ PositiveHistory(clubs[c])
          /\ \E j, k \in FutureRowsFor(clubs[c]) :
                /\ future_df.rows[j]["Predicted_Attendance"].n > 0
                /\ future_df.rows[k]["Predicted_Attendance"].n = 0


-----------------------------------------------------------------------------
(* C29: no step of fit_wsl_linear_model changes the caller's model_df (its *)
(* rows, their order, its columns, its values) or the caller's feature     *)
(* list.                                                                   *)
C29_InputsLeftAlone ==
    [][model_df' = model_df /\ feature_cols' = feature_cols]_vars

\* a finished call that filtered the feature list, rounded the copies and
\* forecast from an input not in Season order
C29_Witness ==
    /\ Returned
    /\ forecast_years > 0
    /\ features # feature_cols
    /\ \A i \in DOMAIN model_df : "Predicted_Attendance" \notin DOMAIN model_df[i]
    /\ \E j \in DOMAIN train_df :
          train_df[j]["Matches"] = 23 /\ InputRowOf(train_df[j])["Matches"] = Q(68, 3)
    /\ \E i, j \in DOMAIN model_df : i < j /\ model_df[j]["Season"] < model_df[i]["Season"]


-----------------------------------------------------------------------------
\* process_nationality_data has ended, by a return or by an exception
NatEnded == nat_pc \in {"done", "raised"}

(* C30: process_nationality_data does not raise on a raw nation value that *)
(* contains no space (a single token, or a missing value turned to text):  *)
(* the call returns, and in the returned row Nationality is null,          *)
(* euro_flag is 0 and group is 'Non-European', even when the single token  *)
(* is 'England' or a name of the European allow-list.                      *)
C30_NoSpaceNationIsNonEuropean ==
    NatEnded =>
        \A i \in DOMAIN NatRaw :
            ~HasSpace(AsStr(NatRaw[i]["Nation"])) =>
                /\ nat_pc = "done"
                /\ nat_out.rows[i]["Nationality"] = NaText
                /\ nat_out.rows[i]["euro_flag"] = 0
                /\ nat_out.rows[i]["group"] = "Non-European"

====
